---- MODULE Spec2Model ----
(***************************************************************************)
(* ROI calculator (apps/roi-calculator-app/src/main.tsx): the field        *)
(* derivation done by handleInputChange / calculateComputedFields and the  *)
(* metrics computed by calculateROI.                                       *)
(*                                                                         *)
(* Numbers.  The program computes with IEEE doubles.  The model computes   *)
(* with exact rationals [n |-> numerator, d |-> denominator] in lowest     *)
(* terms with d > 0; d = 0 stands for the non-finite doubles (n = 1:       *)
(* Infinity, n = -1: -Infinity, n = 0: NaN), which only a division by zero *)
(* produces.  The edit values below are dyadic or integral, so that the    *)
(* products and quotients the code rounds are decided the same way by the  *)
(* doubles and by the rationals.                                           *)
(***************************************************************************)
EXTENDS Integers, Sequences, FiniteSets, TLC

VARIABLES
    inputs,         \* useState<CalculationInputs>            (main.tsx:183)
    results,        \* useState<CalculationResults | null>: <<>> is null (main.tsx:184)
    effectPending,  \* the [inputs] effect of main.tsx:284 has not run yet for this record
    storage,        \* localStorage['roi-calculator-inputs']: <<>> is absent
    lastEdit,       \* the last call handled: [field, value]
    prevEdit,       \* the call handled before lastEdit
    nEdits,         \* number of handleInputChange calls so far
    hoveredSlice,   \* PieChart useState<number | null>: <<>> is null (pie-chart.tsx:195)
    hideTimeoutRef, \* PieChart useRef<Timeout | null>.current: <<>> is null (pie-chart.tsx:197)
    timers,         \* ids of the setTimeout calls of the chart that are still pending
    timerCount,     \* number of setTimeout calls so far: the ids issued are 1..timerCount
    pointer         \* what the mouse pointer is over: <<"outside">>, <<"tooltip">>, <<"slice", i>>

chartVars == <<hoveredSlice, hideTimeoutRef, timers, timerCount, pointer>>

vars == <<inputs, results, effectPending, storage, lastEdit, prevEdit, nEdits,
          hoveredSlice, hideTimeoutRef, timers, timerCount, pointer>>

\* the chart as it is mounted: no slice hovered, no timer, the pointer elsewhere
chartMounted ==
    /\ hoveredSlice = <<>>
    /\ hideTimeoutRef = <<>>
    /\ timers = {}
    /\ timerCount = 0
    /\ pointer = <<"outside">>

\* longest sequence of edits explored
MaxEdits == 2

----------------------------------------------------------------------------
(* Rational arithmetic *)

Abs(x) == IF x < 0 THEN -x ELSE x

Sign(x) == IF x < 0 THEN -1 ELSE IF x > 0 THEN 1 ELSE 0

RECURSIVE GCD(_, _)
GCD(a, b) == IF b = 0 THEN a ELSE GCD(b, a % b)

Norm(n, d) == LET g == GCD(Abs(n), d) IN [n |-> n \div g, d |-> d \div g]

Q(i) == [n |-> i, d |-> 1]

Frac(n, d) == Norm(n, d)

IsFinite(a) == a.d # 0

IsInteger(a) == a.d = 1

Neg(a) == [n |-> -a.n, d |-> a.d]

\* a sum with a non-finite term is that infinity, or NaN (NaN + x, Infinity - Infinity)
Add(a, b) ==
    IF a.d = 0 \/ b.d = 0
    THEN [n |-> IF a.d # 0 THEN b.n
                ELSE IF b.d # 0 THEN a.n
                ELSE IF a.n = b.n THEN a.n ELSE 0,
          d |-> 0]
    ELSE LET g == GCD(a.d, b.d)
         IN  Norm(a.n * (b.d \div g) + b.n * (a.d \div g), (a.d \div g) * b.d)

Sub(a, b) == Add(a, Neg(b))

\* a product with a non-finite factor is Infinity, -Infinity or NaN
Mul(a, b) ==
    IF a.d = 0 \/ b.d = 0 THEN [n |-> Sign(a.n) * Sign(b.n), d |-> 0]
    ELSE LET g1 == GCD(Abs(a.n), b.d)
             g2 == GCD(Abs(b.n), a.d)
         IN  Norm((a.n \div g1) * (b.n \div g2), (a.d \div g2) * (b.d \div g1))

\* x / y of the doubles: a zero divisor gives Infinity, -Infinity or NaN
Div(a, b) ==
    IF b.n = 0 THEN [n |-> Sign(a.n), d |-> 0]
    ELSE Mul(a, IF b.n > 0 THEN [n |-> b.d, d |-> b.n] ELSE [n |-> -b.d, d |-> -b.n])

Lt(a, b) == a.n * b.d < b.n * a.d

Le(a, b) == a.n * b.d <= b.n * a.d

MathMin(a, b) == IF Lt(b, a) THEN b ELSE a

MathMax(a, b) == IF Lt(a, b) THEN b ELSE a

\* Math.ceil: the least integer >= a
MathCeil(a) == Q(-((-a.n) \div a.d))

\* Math.round: floor(a + 1/2), halves go up
MathRound(a) == Q((2 * a.n + a.d) \div (2 * a.d))

----------------------------------------------------------------------------
(* The input record and its derivation *)

BaseFields ==
    {"employeeCount", "averageIncidentResponseTime", "falsePositiveRate",
     "pricePerSecurityIncident", "legacySIEMPricePerGB", "stellarXDRCostPerGB",
     "logVolumeIncidentRatio", "switchFromLegacySIEM"}

HeadcountFields ==
    {"humanSOCAnalysts", "humanSOCManager", "humanSOCEngineer", "humanSOCDirector"}

ComputedFields ==
    HeadcountFields \cup
    {"securityIncidentsPerMonth", "monthlyLogVolumeGB",
     "stellarXDRPlatformCosts", "siemLicensingCosts"}

\* keyof CalculationInputs
CalculationInputsFields == BaseFields \cup ComputedFields

NumericFields == CalculationInputsFields \ {"switchFromLegacySIEM"}

baseInputs ==
    [employeeCount               |-> Q(500),
     averageIncidentResponseTime |-> Q(4),
     falsePositiveRate           |-> Q(90),
     pricePerSecurityIncident    |-> Q(3),
     legacySIEMPricePerGB        |-> Q(3),
     stellarXDRCostPerGB         |-> Q(2),
     logVolumeIncidentRatio      |-> Frac(3, 2),
     switchFromLegacySIEM        |-> TRUE]

\* a slip: the log volume taken from the employee count, not the incident count
calculateComputedFields_volumeFromEmployees(base) ==
    LET ratio == Div(Q(2400), Q(500))
        securityIncidentsPerMonth == MathRound(Mul(base.employeeCount, ratio))
        monthlyLogVolumeGB ==
            MathRound(Mul(base.employeeCount, base.logVolumeIncidentRatio))
        stellarXDRPlatformCosts ==
            Mul(Mul(monthlyLogVolumeGB, base.stellarXDRCostPerGB), Q(12))
        siemLicensingCosts ==
            Mul(Mul(monthlyLogVolumeGB, base.legacySIEMPricePerGB), Q(12))
    IN  [f \in CalculationInputsFields |->
            CASE f = "securityIncidentsPerMonth" -> securityIncidentsPerMonth
              [] f = "monthlyLogVolumeGB"        -> monthlyLogVolumeGB
              [] f = "stellarXDRPlatformCosts"   -> stellarXDRPlatformCosts
              [] f = "siemLicensingCosts"        -> siemLicensingCosts
              [] f = "humanSOCAnalysts" ->
                    MathCeil(Div(securityIncidentsPerMonth, Q(1000)))
              [] f = "humanSOCManager" ->
                    MathCeil(Div(securityIncidentsPerMonth, Q(3000)))
              [] f = "humanSOCEngineer" ->
                    MathCeil(Div(securityIncidentsPerMonth, Q(3000)))
              [] f = "humanSOCDirector" ->
                    MathCeil(Div(securityIncidentsPerMonth, Q(6000)))
              [] OTHER -> base[f]]

calculateComputedFields(base) ==
    LET ratio == Div(Q(2400), Q(500))
        securityIncidentsPerMonth == MathRound(Mul(base.employeeCount, ratio))
        monthlyLogVolumeGB ==
            MathRound(Mul(securityIncidentsPerMonth, base.logVolumeIncidentRatio))
        stellarXDRPlatformCosts ==
            Mul(Mul(monthlyLogVolumeGB, base.stellarXDRCostPerGB), Q(12))
        siemLicensingCosts ==
            Mul(Mul(monthlyLogVolumeGB, base.legacySIEMPricePerGB), Q(12))
    IN  [f \in CalculationInputsFields |->
            CASE f = "securityIncidentsPerMonth" -> securityIncidentsPerMonth
              [] f = "monthlyLogVolumeGB"        -> monthlyLogVolumeGB
              [] f = "stellarXDRPlatformCosts"   -> stellarXDRPlatformCosts
              [] f = "siemLicensingCosts"        -> siemLicensingCosts
              [] f = "humanSOCAnalysts" ->
                    MathCeil(Div(securityIncidentsPerMonth, Q(1000)))
              [] f = "humanSOCManager" ->
                    MathCeil(Div(securityIncidentsPerMonth, Q(3000)))
              [] f = "humanSOCEngineer" ->
                    MathCeil(Div(securityIncidentsPerMonth, Q(3000)))
              [] f = "humanSOCDirector" ->
                    MathCeil(Div(securityIncidentsPerMonth, Q(6000)))
              [] OTHER -> base[f]]

defaultInputs == calculateComputedFields(baseInputs)

\* What localStorage.getItem gives loadInputsFromStorage: <<>> for null (no
\* entry), else <<entry>>, the entry being the object its text parses to, or
\* one of the markers below; GetItemThrows stands for a call that throws.
NotJSON == [notJSON |-> TRUE]

EmptyString == [emptyString |-> TRUE]

GetItemThrows == [getItemThrows |-> TRUE]

\* a slip: no catch, so a failed read or parse leaves the component without a record
loadInputsFromStorage_uncaught(saved) ==
    IF saved = <<>> \/ saved[1] = EmptyString THEN defaultInputs
    ELSE IF saved[1] = GetItemThrows \/ saved[1] = NotJSON
    THEN [f \in CalculationInputsFields |->
            IF f = "switchFromLegacySIEM" THEN FALSE ELSE [n |-> 0, d |-> 0]]
    ELSE calculateComputedFields(
            [f \in BaseFields |->
                IF f \in DOMAIN saved[1] THEN saved[1][f] ELSE baseInputs[f]])

\* try { if (saved) { parse, merge over baseInputs, compute } } catch { warn }
\* return defaultInputs
loadInputsFromStorage(saved) ==
    IF saved = <<>> \/ saved[1] = EmptyString THEN defaultInputs
    ELSE IF saved[1] = GetItemThrows \/ saved[1] = NotJSON THEN defaultInputs
    ELSE calculateComputedFields(
            [f \in BaseFields |->
                IF f \in DOMAIN saved[1] THEN saved[1][f] ELSE baseInputs[f]])

\* a slip: the headcounts rounded to the nearest integer instead of up
cascade_roundedStaff(newInputs, incidents) ==
    LET newLogVolume == MathRound(Mul(incidents, newInputs.logVolumeIncidentRatio))
    IN  [newInputs EXCEPT
            !.humanSOCAnalysts = MathRound(Div(incidents, Q(1000))),
            !.humanSOCManager = MathRound(Div(incidents, Q(3000))),
            !.humanSOCEngineer = MathRound(Div(incidents, Q(3000))),
            !.humanSOCDirector = MathRound(Div(incidents, Q(6000))),
            !.monthlyLogVolumeGB = newLogVolume,
            !.stellarXDRPlatformCosts =
                Mul(Mul(newLogVolume, newInputs.stellarXDRCostPerGB), Q(12)),
            !.siemLicensingCosts =
                Mul(Mul(newLogVolume, newInputs.legacySIEMPricePerGB), Q(12))]

\* the block both driving-field branches run on the new incident count:
\* SOC staff, monthly log volume, the two annual platform costs
cascade(newInputs, incidents) ==
    LET newLogVolume == MathRound(Mul(incidents, newInputs.logVolumeIncidentRatio))
    IN  [newInputs EXCEPT
            !.humanSOCAnalysts = MathCeil(Div(incidents, Q(1000))),
            !.humanSOCManager = MathCeil(Div(incidents, Q(3000))),
            !.humanSOCEngineer = MathCeil(Div(incidents, Q(3000))),
            !.humanSOCDirector = MathCeil(Div(incidents, Q(6000))),
            !.monthlyLogVolumeGB = newLogVolume,
            !.stellarXDRPlatformCosts =
                Mul(Mul(newLogVolume, newInputs.stellarXDRCostPerGB), Q(12)),
            !.siemLicensingCosts =
                Mul(Mul(newLogVolume, newInputs.legacySIEMPricePerGB), Q(12))]

\* a slip: the ratio taken from the incident count of the record being edited
onEmployeeCount_currentRatio(newInputs, value) ==
    LET ratio == Div(newInputs.securityIncidentsPerMonth, defaultInputs.employeeCount)
        newIncidents == MathRound(Mul(value, ratio))
    IN  cascade([newInputs EXCEPT !.securityIncidentsPerMonth = newIncidents], newIncidents)

\* if (field === 'employeeCount') { ... }
onEmployeeCount(newInputs, value) ==
    LET ratio == Div(defaultInputs.securityIncidentsPerMonth, defaultInputs.employeeCount)
        newIncidents == MathRound(Mul(value, ratio))
    IN  cascade([newInputs EXCEPT !.securityIncidentsPerMonth = newIncidents], newIncidents)

\* a slip: the incident count multiplied by the ratio instead of divided
onSecurityIncidentsPerMonth_times(newInputs, value) ==
    LET incidents == value
        ratio == Div(defaultInputs.securityIncidentsPerMonth, defaultInputs.employeeCount)
        newEmployeeCount == MathRound(Mul(incidents, ratio))
    IN  cascade([newInputs EXCEPT !.employeeCount = newEmployeeCount], incidents)

\* a slip: Math.floor instead of Math.round for the employee count
onSecurityIncidentsPerMonth_floor(newInputs, value) ==
    LET incidents == value
        ratio == Div(defaultInputs.securityIncidentsPerMonth, defaultInputs.employeeCount)
        quotient == Div(incidents, ratio)
        newEmployeeCount == Q(quotient.n \div quotient.d)
    IN  cascade([newInputs EXCEPT !.employeeCount = newEmployeeCount], incidents)

\* if (field === 'securityIncidentsPerMonth') { ... }
onSecurityIncidentsPerMonth(newInputs, value) ==
    LET incidents == value
        ratio == Div(defaultInputs.securityIncidentsPerMonth, defaultInputs.employeeCount)
        newEmployeeCount == MathRound(Div(incidents, ratio))
    IN  cascade([newInputs EXCEPT !.employeeCount = newEmployeeCount], incidents)

\* a slip: the licensing cost left at its old value
onLogVolumeIncidentRatio_withoutSIEM(newInputs, value) ==
    LET newLogVolume == MathRound(Mul(newInputs.securityIncidentsPerMonth, value))
    IN  [newInputs EXCEPT
            !.monthlyLogVolumeGB = newLogVolume,
            !.stellarXDRPlatformCosts =
                Mul(Mul(newLogVolume, newInputs.stellarXDRCostPerGB), Q(12))]

\* if (field === 'logVolumeIncidentRatio') { ... }
onLogVolumeIncidentRatio(newInputs, value) ==
    LET newLogVolume == MathRound(Mul(newInputs.securityIncidentsPerMonth, value))
    IN  [newInputs EXCEPT
            !.monthlyLogVolumeGB = newLogVolume,
            !.stellarXDRPlatformCosts =
                Mul(Mul(newLogVolume, newInputs.stellarXDRCostPerGB), Q(12)),
            !.siemLicensingCosts =
                Mul(Mul(newLogVolume, newInputs.legacySIEMPricePerGB), Q(12))]

\* a slip: both platform costs recomputed from the volume
onStellarXDRCostPerGB_bothCosts(newInputs, value) ==
    [newInputs EXCEPT
        !.stellarXDRPlatformCosts = Mul(Mul(newInputs.monthlyLogVolumeGB, value), Q(12)),
        !.siemLicensingCosts =
            Mul(Mul(newInputs.monthlyLogVolumeGB, newInputs.legacySIEMPricePerGB), Q(12))]

\* if (field === 'stellarXDRCostPerGB') { ... }
onStellarXDRCostPerGB(newInputs, value) ==
    [newInputs EXCEPT
        !.stellarXDRPlatformCosts = Mul(Mul(newInputs.monthlyLogVolumeGB, value), Q(12))]

\* a slip: the monthly cost taken for the annual one
onLegacySIEMPricePerGB_monthly(newInputs, value) ==
    [newInputs EXCEPT
        !.siemLicensingCosts = Mul(newInputs.monthlyLogVolumeGB, value)]

\* if (field === 'legacySIEMPricePerGB') { ... }
onLegacySIEMPricePerGB(newInputs, value) ==
    [newInputs EXCEPT
        !.siemLicensingCosts = Mul(Mul(newInputs.monthlyLogVolumeGB, value), Q(12))]

\* a slip: a log volume override cascading into the two platform costs
deriveInputs_volumeCascade(prev, field, value) ==
    LET newInputs == [prev EXCEPT ![field] = value]
    IN  CASE field = "employeeCount" -> onEmployeeCount(newInputs, value)
          [] field = "securityIncidentsPerMonth" ->
                onSecurityIncidentsPerMonth(newInputs, value)
          [] field = "logVolumeIncidentRatio" -> onLogVolumeIncidentRatio(newInputs, value)
          [] field = "stellarXDRCostPerGB" -> onStellarXDRCostPerGB(newInputs, value)
          [] field = "legacySIEMPricePerGB" -> onLegacySIEMPricePerGB(newInputs, value)
          [] field = "monthlyLogVolumeGB" ->
                [newInputs EXCEPT
                    !.stellarXDRPlatformCosts =
                        Mul(Mul(value, newInputs.stellarXDRCostPerGB), Q(12)),
                    !.siemLicensingCosts =
                        Mul(Mul(value, newInputs.legacySIEMPricePerGB), Q(12))]
          [] OTHER -> newInputs

\* the updater handleInputChange passes to setInputs: prev => newInputs
deriveInputs(prev, field, value) ==
    LET newInputs == [prev EXCEPT ![field] = value]
    IN  CASE field = "employeeCount" -> onEmployeeCount(newInputs, value)
          [] field = "securityIncidentsPerMonth" ->
                onSecurityIncidentsPerMonth(newInputs, value)
          [] field = "logVolumeIncidentRatio" -> onLogVolumeIncidentRatio(newInputs, value)
          [] field = "stellarXDRCostPerGB" -> onStellarXDRCostPerGB(newInputs, value)
          [] field = "legacySIEMPricePerGB" -> onLegacySIEMPricePerGB(newInputs, value)
          [] OTHER -> newInputs

\* a slip: the whole record saved, derived fields included
baseFieldsToSave_wholeRecord(newInputs) == newInputs

\* the object handleInputChange writes to localStorage
baseFieldsToSave(newInputs) == [f \in BaseFields |-> newInputs[f]]

----------------------------------------------------------------------------
(* The metrics *)

analystSalary == 85000

managerSalary == 120000

engineerSalary == 150000

directorSalary == 200000

\* a slip: the final cap at 80 left out
calculateEfficiencyImprovement_uncapped(in) ==
    LET baseEfficiency == Q(38)
        falsePositiveImpact == MathMin(Mul(in.falsePositiveRate, Frac(2, 10)), Q(15))
        responseTimeImpact == MathMin(Mul(in.averageIncidentResponseTime, Q(3)), Q(25))
        oneTiBInGB == Q(1024)
        excessLogVolume == MathMax(Q(0), Sub(in.monthlyLogVolumeGB, oneTiBInGB))
        logVolumeImpact == MathMin(Mul(excessLogVolume, Frac(1, 1000)), Q(15))
    IN  Add(Add(Add(baseEfficiency, falsePositiveImpact), responseTimeImpact),
            logVolumeImpact)

calculateEfficiencyImprovement(in) ==
    LET baseEfficiency == Q(38)
        falsePositiveImpact == MathMin(Mul(in.falsePositiveRate, Frac(2, 10)), Q(15))
        responseTimeImpact == MathMin(Mul(in.averageIncidentResponseTime, Q(3)), Q(25))
        oneTiBInGB == Q(1024)
        excessLogVolume == MathMax(Q(0), Sub(in.monthlyLogVolumeGB, oneTiBInGB))
        logVolumeImpact == MathMin(Mul(excessLogVolume, Frac(1, 1000)), Q(15))
        totalEfficiency ==
            Add(Add(Add(baseEfficiency, falsePositiveImpact), responseTimeImpact),
                logVolumeImpact)
    IN  MathMin(totalEfficiency, Q(80))

\* a slip: the false-positive impact taken from 100 - rate
calculateIncidentResponseImprovement_inverted(in) ==
    LET baseImprovement == Q(45)
        responseTimeImpact == MathMin(Mul(in.averageIncidentResponseTime, Q(2)), Q(15))
        falsePositiveImpact ==
            MathMin(Mul(Sub(Q(100), in.falsePositiveRate), Frac(15, 100)), Q(8))
        totalImprovement == Add(Add(baseImprovement, responseTimeImpact), falsePositiveImpact)
    IN  MathMin(totalImprovement, Q(80))

\* a slip: the response-time impact capped at 25, as in the efficiency
calculateIncidentResponseImprovement_wideCap(in) ==
    LET baseImprovement == Q(45)
        responseTimeImpact == MathMin(Mul(in.averageIncidentResponseTime, Q(2)), Q(25))
        falsePositiveImpact == MathMin(Mul(in.falsePositiveRate, Frac(15, 100)), Q(8))
        totalImprovement == Add(Add(baseImprovement, responseTimeImpact), falsePositiveImpact)
    IN  MathMin(totalImprovement, Q(80))

calculateIncidentResponseImprovement(in) ==
    LET baseImprovement == Q(45)
        responseTimeImpact == MathMin(Mul(in.averageIncidentResponseTime, Q(2)), Q(15))
        falsePositiveImpact == MathMin(Mul(in.falsePositiveRate, Frac(15, 100)), Q(8))
        totalImprovement == Add(Add(baseImprovement, responseTimeImpact), falsePositiveImpact)
    IN  MathMin(totalImprovement, Q(80))

\* a slip: the SIEM licence left out of the human SOC cost
humanSOCTotalCost_personnelOnly(in) ==
    Add(Add(Add(Mul(in.humanSOCAnalysts, Q(analystSalary)),
                Mul(in.humanSOCManager, Q(managerSalary))),
            Mul(in.humanSOCEngineer, Q(engineerSalary))),
        Mul(in.humanSOCDirector, Q(directorSalary)))

\* humanSOCPersonnelCost + inputs.siemLicensingCosts
humanSOCTotalCost(in) ==
    LET humanSOCPersonnelCost ==
            Add(Add(Add(Mul(in.humanSOCAnalysts, Q(analystSalary)),
                        Mul(in.humanSOCManager, Q(managerSalary))),
                    Mul(in.humanSOCEngineer, Q(engineerSalary))),
                Mul(in.humanSOCDirector, Q(directorSalary)))
    IN  Add(humanSOCPersonnelCost, in.siemLicensingCosts)

autonomousSOCAnnualCost(in) ==
    LET autonomousSOCMonthlyCost ==
            Mul(in.securityIncidentsPerMonth, in.pricePerSecurityIncident)
    IN  Mul(autonomousSOCMonthlyCost, Q(12))

\* humanSOCTotalCost * (1 - efficiencyImprovement / 100)
adjustedAnnualSOCCost(humanCost, efficiencyImprovement) ==
    Mul(humanCost, Sub(Q(1), Div(efficiencyImprovement, Q(100))))

\* a slip: the platform savings counted only when switching from the legacy SIEM
platformSavings_whenSwitching(in) ==
    IF in.switchFromLegacySIEM
    THEN Sub(in.siemLicensingCosts, in.stellarXDRPlatformCosts)
    ELSE Q(0)

platformSavings(in) == Sub(in.siemLicensingCosts, in.stellarXDRPlatformCosts)

\* a slip: the platform savings left out
annualSavings_withoutPlatform(humanCost, adjustedCost, autonomousCost, savedOnPlatform) ==
    Sub(humanCost, Add(adjustedCost, autonomousCost))

\* humanSOCTotalCost - (adjustedAnnualSOCCost + autonomousSOCAnnualCost) + platformSavings
annualSavings(humanCost, adjustedCost, autonomousCost, savedOnPlatform) ==
    Add(Sub(humanCost, Add(adjustedCost, autonomousCost)), savedOnPlatform)

\* a slip: the guard tests the savings instead of the cost
roiPercentage_guardOnSavings(savings, autonomousCost) ==
    IF savings = Q(0)
    THEN Q(0)
    ELSE Mul(Div(savings, autonomousCost), Q(100))

\* a slip: no guard
roiPercentage_unguarded(savings, autonomousCost) ==
    Mul(Div(savings, autonomousCost), Q(100))

\* autonomousSOCAnnualCost === 0 ? 0 : (annualSavings / autonomousSOCAnnualCost) * 100
roiPercentage(savings, autonomousCost) ==
    IF autonomousCost = Q(0)
    THEN Q(0)
    ELSE Mul(Div(savings, autonomousCost), Q(100))

calculateROI(in) ==
    LET humanCost == humanSOCTotalCost(in)
        autonomousCost == autonomousSOCAnnualCost(in)
        efficiencyImprovement == calculateEfficiencyImprovement(in)
        incidentResponseImprovement == calculateIncidentResponseImprovement(in)
        adjustedCost == adjustedAnnualSOCCost(humanCost, efficiencyImprovement)
        savedOnPlatform == platformSavings(in)
        savings == annualSavings(humanCost, adjustedCost, autonomousCost, savedOnPlatform)
    IN  [humanSOCTotalCost           |-> humanCost,
         autonomousSOCTotalCost      |-> autonomousCost,
         adjustedAnnualSOCCost       |-> adjustedCost,
         platformSavings             |-> savedOnPlatform,
         annualSavings               |-> savings,
         roiPercentage               |-> roiPercentage(savings, autonomousCost),
         paybackPeriod               |-> Q(0),
         efficiencyImprovement       |-> efficiencyImprovement,
         incidentResponseImprovement |-> incidentResponseImprovement]

----------------------------------------------------------------------------
(* The values an edit can carry.  The text fields of the customization     *)
(* dialog pass parseFloat(text) || 0, any finite number, for every numeric *)
(* field; the dial and the slider pass values of their ranges.             *)

EditValues(field) ==
    CASE field = "employeeCount" -> {Q(0), Frac(1, 2), Q(3), Q(500)}
      [] field = "securityIncidentsPerMonth" ->
            {Q(0), Frac(1, 2), Q(2), Q(12), Q(14), Q(2400), Q(7200)}
      [] field = "averageIncidentResponseTime" -> {Q(-2), Q(0), Q(4), Q(10)}
      [] field = "falsePositiveRate" -> {Q(-10), Q(0), Q(50), Q(90)}
      [] field = "pricePerSecurityIncident" -> {Q(0), Frac(1, 2), Q(3)}
      [] field = "humanSOCAnalysts" -> {Q(0), Frac(1, 2), Q(3)}
      [] field = "humanSOCManager" -> {Q(0), Q(1)}
      [] field = "humanSOCEngineer" -> {Q(0), Q(1)}
      [] field = "humanSOCDirector" -> {Q(0), Q(1)}
      [] field = "legacySIEMPricePerGB" -> {Q(0), Frac(5, 2), Q(3)}
      [] field = "stellarXDRCostPerGB" -> {Q(0), Q(2)}
      [] field = "logVolumeIncidentRatio" -> {Q(0), Frac(1, 2), Frac(3, 2)}
      [] field = "monthlyLogVolumeGB" -> {Q(-5), Q(0), Q(2024), Q(20000)}
      [] field = "stellarXDRPlatformCosts" -> {Q(0), Q(86400)}
      [] field = "siemLicensingCosts" -> {Q(0), Q(57600), Q(129600)}
      [] field = "switchFromLegacySIEM" -> BOOLEAN

NoEdit == [field |-> "none", value |-> Q(0)]

----------------------------------------------------------------------------
(* The component: mount, edits, the results effect, reset, reload *)

TypeOK ==
    /\ DOMAIN inputs = CalculationInputsFields
    /\ results = <<>> \/ Len(results) = 1
    /\ effectPending \in BOOLEAN
    /\ storage = <<>>
       \/ /\ Len(storage) = 1
          /\ \/ storage[1] \in {NotJSON, EmptyString}
             \/ DOMAIN storage[1] \subseteq BaseFields
    /\ nEdits \in 0..(MaxEdits + 1)

\* first mount with an empty localStorage
Init ==
    /\ storage = <<>>
    /\ inputs = loadInputsFromStorage(storage)
    /\ results = <<>>
    /\ effectPending = TRUE
    /\ lastEdit = NoEdit
    /\ prevEdit = NoEdit
    /\ nEdits = 0
    /\ chartMounted

\* a slip: only the edited field is committed, the cascade left for later
handleInputChange_cascadeDeferred(field, value) ==
    /\ ~effectPending
    /\ nEdits < MaxEdits
    /\ inputs' = [inputs EXCEPT ![field] = value]
    /\ storage' = <<baseFieldsToSave(inputs')>>
    /\ effectPending' = TRUE
    /\ lastEdit' = [field |-> field, value |-> value]
    /\ prevEdit' = lastEdit
    /\ nEdits' = nEdits + 1
    /\ UNCHANGED results
    /\ UNCHANGED chartVars

\* handleInputChange(field, value): the new record replaces the old one and its
\* base fields are written to localStorage; the [inputs] effect is then due
handleInputChange(field, value) ==
    /\ ~effectPending
    /\ nEdits < MaxEdits
    /\ inputs' = deriveInputs(inputs, field, value)
    /\ storage' = <<baseFieldsToSave(inputs')>>
    /\ effectPending' = TRUE
    /\ lastEdit' = [field |-> field, value |-> value]
    /\ prevEdit' = lastEdit
    /\ nEdits' = nEdits + 1
    /\ UNCHANGED results
    /\ UNCHANGED chartVars

EditField == \E field \in CalculationInputsFields : \E value \in EditValues(field) :
    handleInputChange(field, value)

\* useEffect(() => setResults(calculateROI()), [inputs, calculateROI])
ResultsEffect ==
    /\ effectPending
    /\ results' = <<calculateROI(inputs)>>
    /\ effectPending' = FALSE
    /\ UNCHANGED <<inputs, storage, lastEdit, prevEdit, nEdits>>
    /\ UNCHANGED chartVars

\* a slip: the persisted entry left in place
ResetToDefaults_keepsEntry ==
    /\ ~effectPending
    /\ inputs' = defaultInputs
    /\ effectPending' = TRUE
    /\ lastEdit' = [field |-> "reset", value |-> Q(0)]
    /\ prevEdit' = lastEdit
    /\ UNCHANGED <<results, nEdits, storage>>
    /\ UNCHANGED chartVars

\* 'Reset to Defaults'
ResetToDefaults ==
    /\ ~effectPending
    /\ inputs' = defaultInputs
    /\ storage' = <<>>
    /\ effectPending' = TRUE
    /\ lastEdit' = [field |-> "reset", value |-> Q(0)]
    /\ prevEdit' = lastEdit
    /\ UNCHANGED <<results, nEdits>>
    /\ UNCHANGED chartVars

\* the page is loaded again: the component is constructed from localStorage
Reload ==
    /\ ~effectPending
    /\ inputs' = loadInputsFromStorage(storage)
    /\ results' = <<>>
    /\ effectPending' = TRUE
    /\ lastEdit' = [field |-> "reload", value |-> Q(0)]
    /\ prevEdit' = lastEdit
    /\ UNCHANGED <<storage, nEdits>>
    /\ UNCHANGED chartVars

Next == EditField \/ ResultsEffect \/ ResetToDefaults \/ Reload

Spec == Init /\ [][Next]_vars

----------------------------------------------------------------------------
(* calculateROI over the records it can be given.  Every field calculateROI *)
(* reads has a text field of its own, so the records below are the ones     *)
(* reached from the default record by editing, in this order, the incident  *)
(* count, the price, the two rates, the four headcounts, the log volume and *)
(* the two annual platform costs.                                           *)

ROIFields ==
    <<"securityIncidentsPerMonth", "pricePerSecurityIncident", "falsePositiveRate",
      "averageIncidentResponseTime", "humanSOCAnalysts", "humanSOCManager",
      "humanSOCEngineer", "humanSOCDirector", "monthlyLogVolumeGB",
      "stellarXDRPlatformCosts", "siemLicensingCosts">>

ROIValues(field) ==
    CASE field = "securityIncidentsPerMonth" -> {Q(0), Q(2400), Q(7200)}
      [] field = "monthlyLogVolumeGB" -> {Q(-5), Q(0), Q(3600), Q(20000)}
      [] OTHER -> EditValues(field)

RECURSIVE editAll(_, _, _)
editAll(record, values, i) ==
    IF i > Len(ROIFields) THEN record
    ELSE editAll(deriveInputs(record, ROIFields[i], values[i]), values, i + 1)

ROIValueTuples ==
    ROIValues(ROIFields[1]) \X ROIValues(ROIFields[2]) \X ROIValues(ROIFields[3]) \X
    ROIValues(ROIFields[4]) \X ROIValues(ROIFields[5]) \X ROIValues(ROIFields[6]) \X
    ROIValues(ROIFields[7]) \X ROIValues(ROIFields[8]) \X ROIValues(ROIFields[9]) \X
    ROIValues(ROIFields[10]) \X ROIValues(ROIFields[11])

InitROI ==
    /\ \E values \in ROIValueTuples : inputs = editAll(defaultInputs, values, 1)
    /\ storage = <<baseFieldsToSave(inputs)>>
    /\ results = <<>>
    /\ effectPending = TRUE
    /\ lastEdit = NoEdit
    /\ prevEdit = NoEdit
    /\ nEdits = 0
    /\ chartMounted

NextROI == ResultsEffect

SpecROI == InitROI /\ [][NextROI]_vars

----------------------------------------------------------------------------
(* Properties of the field derivation (specification Spec) *)

\* round(x) for a rational x, written out on numerator and denominator
RoundOf(n, d) == Q((2 * n + d) \div (2 * d))

\* ceil(x / k) for a rational x and a positive integer k
CeilOfQuotient(x, k) == Q((x.n + k * x.d - 1) \div (k * x.d))

\* the cascade of section 4.1 from the incident count I of the record
CascadeFrom(record, I) ==
    LET r == record.logVolumeIncidentRatio
        V == RoundOf(I.n * r.n, I.d * r.d)
        s == record.stellarXDRCostPerGB
        l == record.legacySIEMPricePerGB
    IN  /\ record.humanSOCAnalysts = CeilOfQuotient(I, 1000)
        /\ record.humanSOCManager = CeilOfQuotient(I, 3000)
        /\ record.humanSOCEngineer = CeilOfQuotient(I, 3000)
        /\ record.humanSOCDirector = CeilOfQuotient(I, 6000)
        /\ record.monthlyLogVolumeGB = V
        /\ record.stellarXDRPlatformCosts = Frac(V.n * s.n * 12, s.d)
        /\ record.siemLicensingCosts = Frac(V.n * l.n * 12, l.d)

\* C1: after every edit of employeeCount to E, from any prior record, the
\* record has employeeCount = E, securityIncidentsPerMonth = round(E * 2400/500)
\* and, from that incident count, the four headcounts, the log volume and the
\* two annual platform costs of the cascade.
C1_EmployeeCountEdit ==
    lastEdit.field = "employeeCount" =>
        LET E == lastEdit.value
        IN  /\ inputs.employeeCount = E
            /\ inputs.securityIncidentsPerMonth = RoundOf(E.n * 2400, E.d * 500)
            /\ CascadeFrom(inputs, inputs.securityIncidentsPerMonth)

\* an employeeCount edit made on a record whose own incidents-to-employees
\* ratio was 12/3, not 2400/500
C1_Witness ==
    /\ prevEdit.field = "securityIncidentsPerMonth"
    /\ prevEdit.value = Q(12)
    /\ lastEdit.field = "employeeCount"
    /\ lastEdit.value = Q(3)
    /\ inputs.securityIncidentsPerMonth = Q(14)
    /\ inputs.monthlyLogVolumeGB = Q(21)
    /\ inputs.siemLicensingCosts = Q(756)

\* C2: after every edit of securityIncidentsPerMonth to I, from any prior
\* record, the record has employeeCount = round(I / (2400/500)) and the same
\* cascade from I as after an employeeCount edit.
C2_SecurityIncidentsEdit ==
    lastEdit.field = "securityIncidentsPerMonth" =>
        LET I == lastEdit.value
        IN  /\ inputs.securityIncidentsPerMonth = I
            /\ inputs.employeeCount = RoundOf(I.n * 500, I.d * 2400)
            /\ CascadeFrom(inputs, I)

\* an incident edit to 7200 after the log ratio was set to 1/2
C2_Witness ==
    /\ prevEdit.field = "logVolumeIncidentRatio"
    /\ prevEdit.value = Frac(1, 2)
    /\ lastEdit.field = "securityIncidentsPerMonth"
    /\ lastEdit.value = Q(7200)
    /\ inputs.employeeCount = Q(1500)
    /\ inputs.humanSOCAnalysts = Q(8)
    /\ inputs.humanSOCManager = Q(3)
    /\ inputs.humanSOCDirector = Q(2)
    /\ inputs.monthlyLogVolumeGB = Q(3600)

\* |a - b| < 1
WithinOne(a, b) == Lt(Sub(a, b), Q(1)) /\ Lt(Sub(b, a), Q(1))

\* C3: round trip.  After an edit of employeeCount to E > 0 the incident count
\* is round(E * K); when the incident count is then edited to that same value,
\* employeeCount comes back as E if E is a whole number, and in any case
\* within less than one of E.
C3_RoundTrip ==
    /\ (lastEdit.field = "employeeCount" /\ Lt(Q(0), lastEdit.value)) =>
            inputs.securityIncidentsPerMonth =
                RoundOf(lastEdit.value.n * 2400, lastEdit.value.d * 500)
    /\ ( /\ prevEdit.field = "employeeCount"
         /\ Lt(Q(0), prevEdit.value)
         /\ lastEdit.field = "securityIncidentsPerMonth"
         /\ lastEdit.value = RoundOf(prevEdit.value.n * 2400, prevEdit.value.d * 500) ) =>
            /\ IsInteger(prevEdit.value) => inputs.employeeCount = prevEdit.value
            /\ WithinOne(inputs.employeeCount, prevEdit.value)

\* employeeCount 3 gave 14 incidents, and the edit of incidents to 14 gave 3 back
C3_Witness ==
    /\ prevEdit.field = "employeeCount"
    /\ prevEdit.value = Q(3)
    /\ lastEdit.field = "securityIncidentsPerMonth"
    /\ lastEdit.value = Q(14)
    /\ inputs.employeeCount = Q(3)

\* each headcount is an integer and at least ceil(incidents / divisor)
Provisioned(record) ==
    LET I == record.securityIncidentsPerMonth
    IN  /\ \A f \in HeadcountFields : IsInteger(record[f])
        /\ Le(CeilOfQuotient(I, 1000), record.humanSOCAnalysts)
        /\ Le(CeilOfQuotient(I, 3000), record.humanSOCManager)
        /\ Le(CeilOfQuotient(I, 3000), record.humanSOCEngineer)
        /\ Le(CeilOfQuotient(I, 6000), record.humanSOCDirector)

----------------------------------------------------------------------------
(* Properties of calculateROI (specification SpecROI) *)

\* results holds calculateROI of the current record
Computed == results # <<>> /\ ~effectPending

\* C5 as stated: roiPercentage is 0 exactly when the autonomous SOC annual cost
\* is 0.
C5_ZeroROIExactlyAtZeroCost ==
    Computed =>
        (results[1].roiPercentage = Q(0) <=> results[1].autonomousSOCTotalCost = Q(0))

\* C5 amended: a zero autonomous SOC annual cost gives roiPercentage = 0, and
\* with a non-zero cost roiPercentage is 0 exactly when annualSavings is 0
\* (the break-even record).
C5_ZeroROIAtZeroCostOrBreakEven ==
    Computed =>
        LET r == results[1]
        IN  /\ r.autonomousSOCTotalCost = Q(0) => r.roiPercentage = Q(0)
            /\ r.autonomousSOCTotalCost # Q(0) =>
                    (r.roiPercentage = Q(0) <=> r.annualSavings = Q(0))

\* the break-even record: cost 86400, savings 0, ROI 0
C5_Witness ==
    /\ Computed
    /\ inputs.securityIncidentsPerMonth = Q(2400)
    /\ inputs.pricePerSecurityIncident = Q(3)
    /\ results[1].autonomousSOCTotalCost = Q(86400)
    /\ results[1].humanSOCTotalCost = Q(57600)
    /\ results[1].annualSavings = Q(0)
    /\ results[1].roiPercentage = Q(0)

\* C6: with pricePerSecurityIncident = 0 or securityIncidentsPerMonth = 0,
\* calculateROI returns autonomousSOCTotalCost = 0 and roiPercentage = 0, a
\* finite number, whatever annualSavings is.
C6_ZeroCostGuard ==
    (Computed /\ (inputs.pricePerSecurityIncident = Q(0)
                    \/ inputs.securityIncidentsPerMonth = Q(0))) =>
        /\ results[1].autonomousSOCTotalCost = Q(0)
        /\ IsFinite(results[1].roiPercentage)
        /\ results[1].roiPercentage = Q(0)

\* price 0 with 7200 incidents and non-zero savings
C6_Witness ==
    /\ Computed
    /\ inputs.pricePerSecurityIncident = Q(0)
    /\ inputs.securityIncidentsPerMonth = Q(7200)
    /\ results[1].annualSavings # Q(0)
    /\ results[1].roiPercentage = Q(0)

MonotoneFields == {"falsePositiveRate", "averageIncidentResponseTime", "monthlyLogVolumeGB"}

\* C8: raising falsePositiveRate, averageIncidentResponseTime or
\* monthlyLogVolumeGB alone never lowers efficiencyImprovement or
\* incidentResponseImprovement.
C8_ImprovementMonotone ==
    Computed =>
        \A f \in MonotoneFields : \A v \in ROIValues(f) :
            Le(inputs[f], v) =>
                LET raised == calculateROI([inputs EXCEPT ![f] = v])
                IN  /\ Le(results[1].efficiencyImprovement, raised.efficiencyImprovement)
                    /\ Le(results[1].incidentResponseImprovement,
                          raised.incidentResponseImprovement)

\* a record for which raising the false positive rate from 0 to 50 raises both
C8_Witness ==
    /\ Computed
    /\ inputs.falsePositiveRate = Q(0)
    /\ inputs.averageIncidentResponseTime = Q(4)
    /\ LET raised == calculateROI([inputs EXCEPT !.falsePositiveRate = Q(50)])
       IN  /\ Lt(results[1].efficiencyImprovement, raised.efficiencyImprovement)
           /\ Lt(results[1].incidentResponseImprovement, raised.incidentResponseImprovement)

\* C9: annualSavings = humanSOCTotalCost - (adjustedAnnualSOCCost +
\* autonomousSOCAnnualCost) + platformSavings, with adjustedAnnualSOCCost =
\* humanSOCTotalCost * (1 - efficiencyImprovement/100) and platformSavings =
\* siemLicensingCosts - stellarXDRPlatformCosts.
C9_AnnualSavings ==
    Computed =>
        LET r == results[1]
        IN  /\ r.platformSavings =
                    Sub(inputs.siemLicensingCosts, inputs.stellarXDRPlatformCosts)
            /\ Mul(r.adjustedAnnualSOCCost, Q(100)) =
                    Mul(r.humanSOCTotalCost, Sub(Q(100), r.efficiencyImprovement))
            /\ Add(r.annualSavings, Add(r.adjustedAnnualSOCCost, r.autonomousSOCTotalCost)) =
                    Add(r.humanSOCTotalCost, r.platformSavings)

\* negative platform savings and a fractional efficiency improvement
C9_Witness ==
    /\ Computed
    /\ inputs.siemLicensingCosts = Q(0)
    /\ inputs.stellarXDRPlatformCosts = Q(86400)
    /\ results[1].platformSavings = Q(-86400)
    /\ results[1].efficiencyImprovement = Frac(67576, 1000)
    /\ results[1].humanSOCTotalCost # Q(0)

----------------------------------------------------------------------------
(* Startup over whatever the inputs entry holds.  The entry may have been   *)
(* left by an earlier visit or damaged outside the component: absent, an    *)
(* empty string, text that is not JSON, an object with only some of the     *)
(* base fields, or a complete one; and localStorage.getItem may throw.      *)

StoredObjects ==
    LET complete ==
            {baseFieldsToSave(deriveInputs(defaultInputs, "employeeCount", v)) :
                v \in EditValues("employeeCount")}
            \cup {baseFieldsToSave(deriveInputs(defaultInputs, "legacySIEMPricePerGB", v)) :
                v \in EditValues("legacySIEMPricePerGB")}
        kept == {{}, {"employeeCount"}, {"employeeCount", "logVolumeIncidentRatio"},
                 {"legacySIEMPricePerGB", "switchFromLegacySIEM"}, BaseFields}
    IN  {[f \in fields |-> object[f]] : object \in complete, fields \in kept}

StoredEntries == {<<>>, <<NotJSON>>, <<EmptyString>>} \cup {<<object>> : object \in StoredObjects}

\* localStorage.getItem('roi-calculator-inputs'): the entry, or an exception
getItem(stored) == {stored, <<GetItemThrows>>}

StartupEdit(saved) ==
    [field |-> IF saved = <<GetItemThrows>> THEN "startup, getItem throws" ELSE "startup",
     value |-> Q(0)]

MaxStartupEdits == 1

InitStartup ==
    /\ storage \in StoredEntries
    /\ \E saved \in getItem(storage) :
          /\ inputs = loadInputsFromStorage(saved)
          /\ lastEdit = StartupEdit(saved)
    /\ results = <<>>
    /\ effectPending = TRUE
    /\ prevEdit = NoEdit
    /\ nEdits = 0
    /\ chartMounted

\* the page is loaded again: useState(loadInputsFromStorage) on the new mount
Startup ==
    /\ ~effectPending
    /\ \E saved \in getItem(storage) :
          /\ inputs' = loadInputsFromStorage(saved)
          /\ lastEdit' = StartupEdit(saved)
    /\ results' = <<>>
    /\ effectPending' = TRUE
    /\ prevEdit' = lastEdit
    /\ UNCHANGED <<storage, nEdits>>
    /\ UNCHANGED chartVars

EditAfterStartup == nEdits < MaxStartupEdits /\ EditField

NextStartup == EditAfterStartup \/ ResultsEffect \/ Startup

SpecStartup == InitStartup /\ [][NextStartup]_vars

----------------------------------------------------------------------------
(* Value analysis (value-analysis.tsx): the value breakdown shown below the *)
(* ROI figures, in its ten-category and its eight-category variant, and the *)
(* pie chart that draws it (pie-chart.tsx).  Both are pure functions of the *)
(* record they are rendered with.                                           *)

baseAnalystSalary == 85000

analystHoursPerYear == 2080

analystHourlyRate == Div(Q(baseAnalystSalary), Q(analystHoursPerYear))

falsePositiveReduction(in) ==
    LET currentFalsePositives ==
            Mul(Mul(in.securityIncidentsPerMonth, Div(in.falsePositiveRate, Q(100))), Q(12))
        reducedFalsePositives ==
            Mul(Mul(in.securityIncidentsPerMonth, Frac(5, 100)), Q(12))
    IN  Mul(Mul(Sub(currentFalsePositives, reducedFalsePositives), Q(2)), analystHourlyRate)

productivityImprovement(in) ==
    LET productivityHoursSaved ==
            Mul(Mul(in.humanSOCAnalysts, Q(analystHoursPerYear)), Frac(4, 10))
    IN  Mul(Mul(productivityHoursSaved, analystHourlyRate), Frac(15, 10))

analystRetention(in) ==
    LET turnoverCost == Mul(Q(baseAnalystSalary), Frac(5, 10))
    IN  Mul(Mul(in.humanSOCAnalysts, turnoverCost), Frac(6, 10))

complianceEfficiency(in) ==
    LET complianceHoursPerYear == Mul(in.humanSOCAnalysts, Q(200))
    IN  Mul(Mul(complianceHoursPerYear, analystHourlyRate), Frac(7, 10))

stressReduction(in) == Mul(in.humanSOCAnalysts, Q(15000))

shiftCoverage(in) == Mul(in.humanSOCAnalysts, Q(20000))

(* The ten-category variant. *)
calculateValueMetricsTen(in) ==
    LET riskReduction ==
            Mul(Mul(Mul(in.securityIncidentsPerMonth, Q(12)), Q(5000)), Frac(3, 10))
        timeReduction == Mul(in.averageIncidentResponseTime, Frac(85, 100))
        incidentResponseTime ==
            Mul(Mul(Mul(Mul(in.securityIncidentsPerMonth, Q(12)), timeReduction),
                    analystHourlyRate), Q(2))
        threatIntelligence == Mul(in.employeeCount, Q(50))
        automationHours ==
            Mul(Mul(in.humanSOCAnalysts, Q(analystHoursPerYear)), Frac(3, 10))
        automationValue == Mul(automationHours, analystHourlyRate)
    IN  <<[key |-> "falsePositiveReduction", value |-> falsePositiveReduction(in)],
          [key |-> "riskReduction", value |-> riskReduction],
          [key |-> "productivityImprovement", value |-> productivityImprovement(in)],
          [key |-> "incidentResponseTime", value |-> incidentResponseTime],
          [key |-> "analystRetention", value |-> analystRetention(in)],
          [key |-> "complianceEfficiency", value |-> complianceEfficiency(in)],
          [key |-> "threatIntelligence", value |-> threatIntelligence],
          [key |-> "automationValue", value |-> automationValue],
          [key |-> "stressReduction", value |-> stressReduction(in)],
          [key |-> "shiftCoverage", value |-> shiftCoverage(in)]>>

(* The eight-category variant: risk and response time count the genuine     *)
(* incidents only.                                                          *)
calculateValueMetricsEight(in) ==
    LET genuineIncidentsPerMonth ==
            Mul(in.securityIncidentsPerMonth,
                Sub(Q(1), Div(in.falsePositiveRate, Q(100))))
        riskReduction ==
            Mul(Mul(Mul(genuineIncidentsPerMonth, Q(12)), Q(5000)), Frac(3, 10))
        truePositivesPerMonth ==
            Mul(in.securityIncidentsPerMonth,
                Sub(Q(1), Div(in.falsePositiveRate, Q(100))))
        falsePositivesPerMonth ==
            Mul(in.securityIncidentsPerMonth, Div(in.falsePositiveRate, Q(100)))
        truePositiveTimeSavings ==
            Mul(Mul(Mul(Mul(truePositivesPerMonth, Q(12)),
                        in.averageIncidentResponseTime), Frac(85, 100)),
                analystHourlyRate)
        falsePositiveTimeSavings ==
            Mul(Mul(Mul(Mul(falsePositivesPerMonth, Q(12)), Q(1)), Frac(1, 10)),
                analystHourlyRate)
        incidentResponseTime == Add(truePositiveTimeSavings, falsePositiveTimeSavings)
    IN  <<[key |-> "falsePositiveReduction", value |-> falsePositiveReduction(in)],
          [key |-> "riskReduction", value |-> riskReduction],
          [key |-> "productivityImprovement", value |-> productivityImprovement(in)],
          [key |-> "incidentResponseTime", value |-> incidentResponseTime],
          [key |-> "analystRetention", value |-> analystRetention(in)],
          [key |-> "complianceEfficiency", value |-> complianceEfficiency(in)],
          [key |-> "stressReduction", value |-> stressReduction(in)],
          [key |-> "shiftCoverage", value |-> shiftCoverage(in)]>>

(* Array.prototype.reduce((sum, value) => sum + value, 0) *)
RECURSIVE sumValues(_, _)
sumValues(entries, i) ==
    IF i = 0 THEN Q(0) ELSE Add(sumValues(entries, i - 1), entries[i].value)

totalValue(valueMetrics) == sumValues(valueMetrics, Len(valueMetrics))

(* Array.prototype.sort with the comparator b.value - a.value: a stable     *)
(* sort into descending order of value.                                     *)
RECURSIVE insertSorted(_, _)
insertSorted(sorted, entry) ==
    IF sorted = <<>> THEN <<entry>>
    ELSE IF Lt(Head(sorted).value, entry.value) THEN <<entry>> \o sorted
    ELSE <<Head(sorted)>> \o insertSorted(Tail(sorted), entry)

RECURSIVE sortByValue(_, _)
sortByValue(entries, i) ==
    IF i = 0 THEN <<>> ELSE insertSorted(sortByValue(entries, i - 1), entries[i])

valueCategories_withoutLast(valueMetrics) ==
    sortByValue(valueMetrics, Len(valueMetrics) - 1)

valueCategories(valueMetrics) == sortByValue(valueMetrics, Len(valueMetrics))

(* Number.prototype.toFixed(1): the nearest multiple of 1/10, a tie going   *)
(* away from zero; NaN and the infinities print as themselves.              *)
toFixed1(a) ==
    IF ~IsFinite(a) THEN a
    ELSE LET whole == Abs(a.n) \div a.d
             rest == Abs(a.n) % a.d
             tenths == 10 * whole + ((20 * rest + a.d) \div (2 * a.d))
         IN  Frac(Sign(a.n) * tenths, 10)

formatPercentage(value, total) == toFixed1(Mul(Div(value, total), Q(100)))

(* PieChart: the total of the data it is given and the share of each slice. *)
pieTotal(data) == sumValues(data, Len(data))

piePercentage(item, total) == Mul(Div(item.value, total), Q(100))

pieTooltipPercentage(item, total) == toFixed1(Mul(Div(item.value, total), Q(100)))

(* What <ValueAnalysis> renders for a record: the metrics, their total, the *)
(* sorted category list with the share printed beside each category, and    *)
(* the pie chart drawn from the same list.                                  *)
renderValueAnalysis(valueMetrics) ==
    LET total == totalValue(valueMetrics)
        categories == valueCategories(valueMetrics)
        chartTotal == pieTotal(categories)
    IN  [valueMetrics |-> valueMetrics,
         totalValue |-> total,
         valueCategories |-> categories,
         listPercentages |->
             [i \in DOMAIN categories |-> formatPercentage(categories[i].value, total)],
         pieTotal |-> chartTotal,
         piePercentages |->
             [i \in DOMAIN categories |-> piePercentage(categories[i], chartTotal)],
         pieTooltips |->
             [i \in DOMAIN categories |-> pieTooltipPercentage(categories[i], chartTotal)]]

ValueAnalysisTen(in) == renderValueAnalysis(calculateValueMetricsTen(in))

ValueAnalysisEight(in) == renderValueAnalysis(calculateValueMetricsEight(in))

(* The records the value analysis is rendered with: reached from the        *)
(* default record by editing the incident count, the two rates and the      *)
(* analyst headcount.  The values are small enough for every share to stay  *)
(* an exact fraction of 32-bit integers.                                    *)
ValueFields ==
    <<"securityIncidentsPerMonth", "falsePositiveRate", "averageIncidentResponseTime",
      "humanSOCAnalysts">>

ValueValues(field) ==
    CASE field = "securityIncidentsPerMonth" -> {Q(0), Q(2), Q(12), Q(14), Q(24)}
      [] field = "falsePositiveRate" -> {Q(0), Q(4), Q(5), Q(50), Q(90), Q(100)}
      [] field = "averageIncidentResponseTime" -> {Q(0), Frac(1, 2), Q(4), Q(10)}
      [] field = "humanSOCAnalysts" -> {Q(0), Frac(1, 2), Q(1), Q(3)}

RECURSIVE editEach(_, _, _, _)
editEach(record, fields, values, i) ==
    IF i > Len(fields) THEN record
    ELSE editEach(deriveInputs(record, fields[i], values[i]), fields, values, i + 1)

ValueValueTuples ==
    ValueValues(ValueFields[1]) \X ValueValues(ValueFields[2]) \X
    ValueValues(ValueFields[3]) \X ValueValues(ValueFields[4])

InitValue ==
    /\ \E values \in ValueValueTuples :
           inputs = editEach(defaultInputs, ValueFields, values, 1)
    /\ storage = <<baseFieldsToSave(inputs)>>
    /\ results = <<>>
    /\ effectPending = TRUE
    /\ lastEdit = NoEdit
    /\ prevEdit = NoEdit
    /\ nEdits = 0
    /\ chartMounted

NextValue == ResultsEffect

SpecValue == InitValue /\ [][NextValue]_vars

----------------------------------------------------------------------------
(* The category list and the pie chart as drawn: colours and slice angles. *)

colorsTen ==
    <<"#FF6B6B", "#4ECDC4", "#45B7D1", "#96CEB4", "#FFEAA7",
      "#DDA0DD", "#98D8C8", "#F7DC6F", "#FF9FF3", "#54A0FF">>

colorsEight ==
    <<"#60A5FA", "#34D399", "#F59E0B", "#EF4444", "#8B5CF6",
      "#06B6D4", "#F97316", "#EC4899", "#10B981", "#6366F1">>

\* colors[index % colors.length], index counted from 0
getColorForCategory(colors, index) == colors[(index % Len(colors)) + 1]

\* the data prop: valueCategories.map((category, index) => ({..., color}))
pieData(categories, colors) ==
    [i \in DOMAIN categories |->
        [name |-> categories[i].key,
         value |-> categories[i].value,
         color |-> getColorForCategory(colors, i - 1)]]

\* the colour of the bullet beside each entry of the category list
listColors(categories, colors) ==
    [i \in DOMAIN categories |-> getColorForCategory(colors, i - 1)]

\* data.map with the running currentAngle, which starts at -90: the first i slices
RECURSIVE pieSlices(_, _)
pieSlices(data, i) ==
    IF i = 0 THEN <<>>
    ELSE LET drawn == pieSlices(data, i - 1)
             currentAngle == IF i = 1 THEN Q(-90) ELSE drawn[i - 1].endAngle
             percentage == Mul(Div(data[i].value, pieTotal(data)), Q(100))
             startAngle == currentAngle
             endAngle == Add(currentAngle, Mul(percentage, Frac(360, 100)))
         IN  Append(drawn, [startAngle |-> startAngle,
                            endAngle |-> endAngle,
                            color |-> data[i].color,
                            name |-> data[i].name])

\* what is drawn for a record: the list entries with their colours, the slices
drawValueAnalysis(valueMetrics, colors) ==
    LET categories == valueCategories(valueMetrics)
        data == pieData(categories, colors)
    IN  [valueCategories |-> categories,
         listColors |-> listColors(categories, colors),
         slices |-> pieSlices(data, Len(data))]

DrawnTen(in) == drawValueAnalysis(calculateValueMetricsTen(in), colorsTen)

DrawnEight(in) == drawValueAnalysis(calculateValueMetricsEight(in), colorsEight)

----------------------------------------------------------------------------
(* Properties of the value breakdown (specification SpecValue) *)

(* <ValueAnalysis> is rendered once results exist. *)
Rendered == results # <<>>

RenderedVariants == {ValueAnalysisTen(inputs), ValueAnalysisEight(inputs)}

RECURSIVE sumOf(_, _)
sumOf(s, i) == IF i = 0 THEN Q(0) ELSE Add(sumOf(s, i - 1), s[i])

NonNegativeInputs(record) ==
    /\ \A f \in NumericFields : Le(Q(0), record[f])
    /\ Le(record.falsePositiveRate, Q(100))

(* C11: for every record whose numeric fields are non-negative and whose    *)
(* falsePositiveRate lies in 0..100, every contribution of the value        *)
(* breakdown, in the ten-category and in the eight-category variant, is     *)
(* >= 0, and the total value is the plain sum of the contributions.  The    *)
(* code breaks it: falsePositiveReduction is negative whenever the rate is  *)
(* below 5 and there are incidents.                                         *)
C11_ContributionsNonNegative ==
    (Rendered /\ NonNegativeInputs(inputs)) =>
        \A va \in RenderedVariants :
            /\ \A i \in DOMAIN va.valueMetrics : Le(Q(0), va.valueMetrics[i].value)
            /\ va.totalValue =
                   sumOf([i \in DOMAIN va.valueMetrics |-> va.valueMetrics[i].value],
                         Len(va.valueMetrics))

(* The share of a category as a number: its value over the total, times 100. *)
RawShares(va) ==
    [i \in DOMAIN va.valueCategories |->
        Mul(Div(va.valueCategories[i].value, va.totalValue), Q(100))]

(* C12: whenever the total value is > 0, the percentage shares              *)
(* value / total * 100 of the categories sum to 100, in the category list   *)
(* and in the pie chart; the shares as printed, with one decimal, sum to    *)
(* 100 within half a tenth per category.                                    *)
C12_SharesSumToHundred ==
    Rendered =>
        \A va \in RenderedVariants :
            Lt(Q(0), va.totalValue) =>
                LET count == Len(va.valueCategories)
                    printed == sumOf(va.listPercentages, count)
                    tolerance == Frac(count, 20)
                IN  /\ sumOf(RawShares(va), count) = Q(100)
                    /\ Lt(Q(0), va.pieTotal)
                    /\ sumOf(va.piePercentages, count) = Q(100)
                    /\ Le(Sub(Q(100), tolerance), printed)
                    /\ Le(printed, Add(Q(100), tolerance))

C12_Witness ==
    /\ Rendered
    /\ inputs.securityIncidentsPerMonth = Q(24)
    /\ inputs.falsePositiveRate = Q(90)
    /\ inputs.humanSOCAnalysts = Q(3)
    /\ \A va \in RenderedVariants :
          /\ Lt(Q(0), va.totalValue)
          /\ \E i \in DOMAIN va.valueCategories :
                va.listPercentages[i] # RawShares(va)[i]

(* C13: when the total of the value breakdown is 0, the percentage share of *)
(* every category, in the category list and in the pie chart, is 0 rather   *)
(* than NaN or an infinity.  The code breaks it: it divides by the total    *)
(* without a guard, and 0 / 0 is NaN.                                       *)
C13_ZeroTotalSharesZero ==
    Rendered =>
        \A va \in RenderedVariants :
            va.totalValue = Q(0) =>
                \A i \in DOMAIN va.valueCategories :
                    /\ va.listPercentages[i] = Q(0)
                    /\ va.piePercentages[i] = Q(0)
                    /\ va.pieTooltips[i] = Q(0)

----------------------------------------------------------------------------
(* Frame properties of the edits (specification Spec) *)

Edited(edit, field, value) == edit.field = field /\ edit.value = value

(* A step of handleInputChange; the edit it makes is lastEdit'. *)
EditStep == nEdits' = nEdits + 1

EditOf(field) == EditStep /\ lastEdit'.field = field

Keeps(fields) == \A f \in fields : inputs'[f] = inputs[f]

DrivingFields ==
    {"employeeCount", "securityIncidentsPerMonth", "logVolumeIncidentRatio",
     "stellarXDRCostPerGB", "legacySIEMPricePerGB"}

(* C14: an edit of stellarXDRCostPerGB alone sets stellarXDRPlatformCosts   *)
(* to monthlyLogVolumeGB * new price * 12 and changes no other field; an    *)
(* edit of legacySIEMPricePerGB does the same to siemLicensingCosts only.   *)
C14_PriceEditFrame ==
    [][/\ EditOf("stellarXDRCostPerGB") =>
            /\ inputs'.stellarXDRCostPerGB = lastEdit'.value
            /\ inputs'.stellarXDRPlatformCosts =
                   Mul(Mul(inputs.monthlyLogVolumeGB, lastEdit'.value), Q(12))
            /\ Keeps(CalculationInputsFields \
                        {"stellarXDRCostPerGB", "stellarXDRPlatformCosts"})
       /\ EditOf("legacySIEMPricePerGB") =>
            /\ inputs'.legacySIEMPricePerGB = lastEdit'.value
            /\ inputs'.siemLicensingCosts =
                   Mul(Mul(inputs.monthlyLogVolumeGB, lastEdit'.value), Q(12))
            /\ Keeps(CalculationInputsFields \
                        {"legacySIEMPricePerGB", "siemLicensingCosts"})]_vars

\* the volume was overridden to 2024, then the Stellar price edited: only the
\* Stellar cost follows the volume, the licensing cost keeps its old value
C14_Witness ==
    /\ Edited(prevEdit, "monthlyLogVolumeGB", Q(2024))
    /\ Edited(lastEdit, "stellarXDRCostPerGB", Q(2))
    /\ inputs.stellarXDRPlatformCosts = Q(48576)
    /\ inputs.siemLicensingCosts = Q(129600)
    /\ inputs.monthlyLogVolumeGB = Q(2024)

(* C15: an edit of a field other than employeeCount,                        *)
(* securityIncidentsPerMonth, logVolumeIncidentRatio, stellarXDRCostPerGB   *)
(* and legacySIEMPricePerGB assigns the raw value to that field and changes *)
(* no other field: an override of monthlyLogVolumeGB recomputes no cost, an *)
(* override of a headcount changes neither incidents nor employees.         *)
C15_OverrideFrame ==
    [][(EditStep /\ lastEdit'.field \notin DrivingFields) =>
            /\ inputs'[lastEdit'.field] = lastEdit'.value
            /\ Keeps(CalculationInputsFields \ {lastEdit'.field})]_vars

C15_Witness ==
    /\ Edited(prevEdit, "humanSOCAnalysts", Q(0))
    /\ Edited(lastEdit, "monthlyLogVolumeGB", Q(2024))
    /\ inputs.humanSOCAnalysts = Q(0)
    /\ inputs.monthlyLogVolumeGB = Q(2024)
    /\ inputs.securityIncidentsPerMonth = Q(2400)
    /\ inputs.employeeCount = Q(500)
    /\ inputs.stellarXDRPlatformCosts = Q(86400)
    /\ inputs.siemLicensingCosts = Q(129600)

(* C16: an edit of logVolumeIncidentRatio to R sets monthlyLogVolumeGB to   *)
(* round(securityIncidentsPerMonth * R) with the current incident count,    *)
(* recomputes both platform costs from that volume, and leaves              *)
(* employeeCount, securityIncidentsPerMonth and the four headcounts (and    *)
(* every other field) unchanged.                                            *)
C16_RatioEdit ==
    [][EditOf("logVolumeIncidentRatio") =>
            LET product == Mul(inputs.securityIncidentsPerMonth, lastEdit'.value)
                volume == RoundOf(product.n, product.d)
            IN  /\ inputs'.logVolumeIncidentRatio = lastEdit'.value
                /\ inputs'.monthlyLogVolumeGB = volume
                /\ inputs'.stellarXDRPlatformCosts =
                       Mul(Mul(volume, inputs.stellarXDRCostPerGB), Q(12))
                /\ inputs'.siemLicensingCosts =
                       Mul(Mul(volume, inputs.legacySIEMPricePerGB), Q(12))
                /\ Keeps(CalculationInputsFields \
                            {"logVolumeIncidentRatio", "monthlyLogVolumeGB",
                             "stellarXDRPlatformCosts", "siemLicensingCosts"})]_vars

\* incidents overridden to 12 (3 employees), then the ratio set to 1/2
C16_Witness ==
    /\ Edited(prevEdit, "securityIncidentsPerMonth", Q(12))
    /\ Edited(lastEdit, "logVolumeIncidentRatio", Frac(1, 2))
    /\ inputs.securityIncidentsPerMonth = Q(12)
    /\ inputs.employeeCount = Q(3)
    /\ inputs.monthlyLogVolumeGB = Q(6)
    /\ inputs.stellarXDRPlatformCosts = Q(144)
    /\ inputs.siemLicensingCosts = Q(216)
    /\ inputs.humanSOCAnalysts = Q(1)

DefaultDerivedValues(record) ==
    /\ record.securityIncidentsPerMonth = Q(2400)
    /\ record.humanSOCAnalysts = Q(3)
    /\ record.humanSOCManager = Q(1)
    /\ record.humanSOCEngineer = Q(1)
    /\ record.humanSOCDirector = Q(1)
    /\ record.monthlyLogVolumeGB = Q(3600)
    /\ record.stellarXDRPlatformCosts = Q(86400)
    /\ record.siemLicensingCosts = Q(129600)

DefaultDrivers(record) ==
    /\ record.employeeCount = Q(500)
    /\ record.logVolumeIncidentRatio = Frac(3, 2)
    /\ record.stellarXDRCostPerGB = Q(2)
    /\ record.legacySIEMPricePerGB = Q(3)

(* C17: the default record (employeeCount 500, ratio 1.5, prices 2 and 3)   *)
(* has 2400 incidents, 3 analysts, 1 manager, 1 engineer, 1 director, a     *)
(* volume of 3600, a Stellar cost of 86400 and a licensing cost of 129600,  *)
(* as the initial state and as the result of editing employeeCount to 500.  *)
C17_DefaultRecord ==
    /\ DefaultDrivers(defaultInputs) /\ DefaultDerivedValues(defaultInputs)
    /\ lastEdit.field = "none" => inputs = defaultInputs /\ DefaultDerivedValues(inputs)
    /\ (Edited(lastEdit, "employeeCount", Q(500))
            /\ DefaultDrivers(inputs)) => DefaultDerivedValues(inputs)

\* the incident count was overridden to 12, then employeeCount edited to 500
C17_Witness ==
    /\ Edited(prevEdit, "securityIncidentsPerMonth", Q(12))
    /\ Edited(lastEdit, "employeeCount", Q(500))
    /\ DefaultDrivers(inputs)
    /\ inputs.securityIncidentsPerMonth = Q(2400)

----------------------------------------------------------------------------
(* Properties of the persistence (specification SpecStartup) *)

EightBaseFields ==
    {"employeeCount", "averageIncidentResponseTime", "falsePositiveRate",
     "pricePerSecurityIncident", "legacySIEMPricePerGB", "stellarXDRCostPerGB",
     "logVolumeIncidentRatio", "switchFromLegacySIEM"}

IsObject(entry) == entry \notin {NotJSON, EmptyString, GetItemThrows}

\* a startup whose read of the entry went through
StartupStep == lastEdit'.field = "startup" /\ effectPending'

\* the record is the derivation of section 4.1 from its own base fields
RebuiltFromBase(record) ==
    LET product == Mul(record.employeeCount, Frac(24, 5))
        I == RoundOf(product.n, product.d)
    IN  /\ record.securityIncidentsPerMonth = I
        /\ CascadeFrom(record, I)

C19_StartupFallback ==
    (/\ lastEdit.field \in {"startup", "startup, getItem throws"}
     /\ \/ lastEdit.field = "startup, getItem throws"
        \/ storage = <<>>
        \/ storage = <<NotJSON>>) =>
        /\ inputs = defaultInputs
        /\ DefaultDrivers(inputs) /\ DefaultDerivedValues(inputs)
        /\ ~effectPending => results = <<calculateROI(defaultInputs)>>

\* a complete entry for 3 employees is stored, the read throws, and the
\* component has computed its results from the default record
C19_Witness ==
    /\ lastEdit.field = "startup, getItem throws"
    /\ storage # <<>> /\ IsObject(storage[1])
    /\ DOMAIN storage[1] = EightBaseFields
    /\ storage[1].employeeCount = Q(3)
    /\ inputs.employeeCount = Q(500)
    /\ results # <<>>

----------------------------------------------------------------------------
(* Atomicity of an edit (specification Spec) *)

Dependents(field) ==
    LET cascaded == HeadcountFields \cup
                    {"monthlyLogVolumeGB", "stellarXDRPlatformCosts", "siemLicensingCosts"}
    IN  CASE field = "employeeCount" -> {"securityIncidentsPerMonth"} \cup cascaded
          [] field = "securityIncidentsPerMonth" -> {"employeeCount"} \cup cascaded
          [] field = "logVolumeIncidentRatio" ->
                {"monthlyLogVolumeGB", "stellarXDRPlatformCosts", "siemLicensingCosts"}
          [] field = "stellarXDRCostPerGB" -> {"stellarXDRPlatformCosts"}
          [] field = "legacySIEMPricePerGB" -> {"siemLicensingCosts"}
          [] OTHER -> {}

\* after is before with the field edited and every dependent of the field at
\* its new value; whatever is not a dependent is as it was
FullyUpdated(before, field, value, after) ==
    /\ after[field] = value
    /\ \A f \in CalculationInputsFields \ ({field} \cup Dependents(field)) :
          after[f] = before[f]
    /\ CASE field = "employeeCount" ->
                /\ after.securityIncidentsPerMonth = RoundOf(value.n * 2400, value.d * 500)
                /\ CascadeFrom(after, after.securityIncidentsPerMonth)
         [] field = "securityIncidentsPerMonth" ->
                /\ after.employeeCount = RoundOf(value.n * 500, value.d * 2400)
                /\ CascadeFrom(after, value)
         [] field = "logVolumeIncidentRatio" ->
                LET product == Mul(before.securityIncidentsPerMonth, value)
                    volume == RoundOf(product.n, product.d)
                IN  /\ after.monthlyLogVolumeGB = volume
                    /\ after.stellarXDRPlatformCosts =
                           Mul(Mul(volume, before.stellarXDRCostPerGB), Q(12))
                    /\ after.siemLicensingCosts =
                           Mul(Mul(volume, before.legacySIEMPricePerGB), Q(12))
         [] field = "stellarXDRCostPerGB" ->
                after.stellarXDRPlatformCosts =
                    Mul(Mul(before.monthlyLogVolumeGB, value), Q(12))
         [] field = "legacySIEMPricePerGB" ->
                after.siemLicensingCosts =
                    Mul(Mul(before.monthlyLogVolumeGB, value), Q(12))
         [] OTHER -> TRUE

\* a run of calculateROI: the results effect
ROIRun == effectPending /\ ~effectPending'

(* C20: an edit is atomic for the metrics engine.  Every edit takes the     *)
(* record, in one step, to the record with the edited field and all of its  *)
(* cascaded dependents updated, leaves the results computed from the        *)
(* previous record as they were and makes the results effect due; every run *)
(* of calculateROI reads the record as it stands, which is therefore the    *)
(* record before an edit or the fully updated one, never one in which the   *)
(* edited field is new and a dependent still old.                           *)
C20_AtomicEdit ==
    [][/\ EditStep =>
            /\ FullyUpdated(inputs, lastEdit'.field, lastEdit'.value, inputs')
            /\ results' = results
            /\ effectPending'
       /\ ROIRun =>
            /\ results' = <<calculateROI(inputs)>>
            /\ inputs' = inputs]_vars

\* employeeCount was edited from 500 to 3 and calculateROI has run on the new
\* record, in which the incident count, the headcounts, the volume and the
\* costs all follow the 3 employees
C20_Witness ==
    /\ prevEdit.field = "none"
    /\ Edited(lastEdit, "employeeCount", Q(3))
    /\ ~effectPending
    /\ inputs.securityIncidentsPerMonth = Q(14)
    /\ inputs.humanSOCAnalysts = Q(1)
    /\ inputs.monthlyLogVolumeGB = Q(21)
    /\ inputs.stellarXDRPlatformCosts = Q(504)
    /\ results = <<calculateROI(inputs)>>
    /\ results[1].humanSOCTotalCost # calculateROI(defaultInputs).humanSOCTotalCost

----------------------------------------------------------------------------
(* The switchFromLegacySIEM flag (specification Spec) *)

Toggled(record) ==
    [record EXCEPT !.switchFromLegacySIEM = ~record.switchFromLegacySIEM]

(* C21: switchFromLegacySIEM does not interfere: the results computed for   *)
(* a record are those calculateROI gives for the record with the flag       *)
(* toggled, so two records that differ only in the flag give the same       *)
(* results; toggling the flag changes no other field of the record; the     *)
(* flag is kept in the record and in the persisted base fields.             *)
C21_SwitchNonInterference ==
    /\ [][/\ ROIRun => results' = <<calculateROI(Toggled(inputs))>>
          /\ EditOf("switchFromLegacySIEM") =>
               /\ inputs'.switchFromLegacySIEM = lastEdit'.value
               /\ Keeps(CalculationInputsFields \ {"switchFromLegacySIEM"})
               /\ storage'[1].switchFromLegacySIEM = lastEdit'.value
          /\ (ROIRun /\ lastEdit.field = "switchFromLegacySIEM" /\ results # <<>>) =>
               results' = results]_vars

\* the flag was switched off: record and entry hold FALSE, and the results
\* computed from the new record still count the platform savings
C21_Witness ==
    /\ prevEdit.field = "none"
    /\ Edited(lastEdit, "switchFromLegacySIEM", FALSE)
    /\ ~effectPending
    /\ inputs.switchFromLegacySIEM = FALSE
    /\ storage[1].switchFromLegacySIEM = FALSE
    /\ results = <<calculateROI(Toggled(inputs))>>
    /\ results[1].platformSavings = Q(43200)

----------------------------------------------------------------------------
(* The records the slices are drawn for.  The slice angles are the shares   *)
(* times 360, so the values are chosen for the shares to have small         *)
(* denominators: incident counts and analyst headcounts that are multiples  *)
(* of 13 cancel the 13 in the hourly rate 85000/2080 = 2125/52.             *)
DrawValues(field) ==
    CASE field = "securityIncidentsPerMonth" -> {Q(0), Q(26), Q(52)}
      [] field = "falsePositiveRate" -> {Q(0), Q(5), Q(50), Q(90)}
      [] field = "averageIncidentResponseTime" -> {Q(0), Q(4), Q(10)}
      [] field = "humanSOCAnalysts" -> {Q(0), Q(13), Q(26)}

DrawValueTuples ==
    DrawValues(ValueFields[1]) \X DrawValues(ValueFields[2]) \X
    DrawValues(ValueFields[3]) \X DrawValues(ValueFields[4])

InitDraw ==
    /\ \E values \in DrawValueTuples :
           inputs = editEach(defaultInputs, ValueFields, values, 1)
    /\ storage = <<baseFieldsToSave(inputs)>>
    /\ results = <<>>
    /\ effectPending = TRUE
    /\ lastEdit = NoEdit
    /\ prevEdit = NoEdit
    /\ nEdits = 0
    /\ chartMounted

NextDraw == ResultsEffect

SpecDraw == InitDraw /\ [][NextDraw]_vars

----------------------------------------------------------------------------
(* Order of the categories and of the slices (specification SpecDraw) *)

DrawnVariants == {DrawnTen(inputs), DrawnEight(inputs)}

SameOrderAndColours(drawn) ==
    /\ Len(drawn.slices) = Len(drawn.valueCategories)
    /\ \A i \in DOMAIN drawn.slices :
          /\ drawn.slices[i].name = drawn.valueCategories[i].key
          /\ drawn.slices[i].color = drawn.listColors[i]

Descending(drawn) ==
    \A i \in DOMAIN drawn.valueCategories : \A j \in DOMAIN drawn.valueCategories :
        i < j => Le(drawn.valueCategories[j].value, drawn.valueCategories[i].value)

ClockwiseFromTop(drawn) ==
    \A i \in DOMAIN drawn.slices :
        /\ IsFinite(drawn.slices[i].startAngle)
        /\ IsFinite(drawn.slices[i].endAngle)
        /\ drawn.slices[i].startAngle =
              IF i = 1 THEN Q(-90) ELSE drawn.slices[i - 1].endAngle
        /\ Sub(drawn.slices[i].endAngle, drawn.slices[i].startAngle).n >= 0

(* C22: the value categories are listed in descending order of value, and   *)
(* the pie chart draws its slices in that order with the same colour per    *)
(* category; the first slice starts at the top (-90 degrees) and each       *)
(* following slice starts where the previous one ended, going clockwise.    *)
(* The code breaks the last part for records with a negative contribution   *)
(* (its slice runs backwards) and for a total of 0 (the angles are NaN).    *)
C22_SlicesFollowCategories ==
    Rendered =>
        \A drawn \in DrawnVariants :
            /\ Descending(drawn)
            /\ SameOrderAndColours(drawn)
            /\ ClockwiseFromTop(drawn)

\* the part of C22 that the code keeps on every record
OrderAndColoursKept ==
    Rendered =>
        \A drawn \in DrawnVariants : Descending(drawn) /\ SameOrderAndColours(drawn)

\* and all of it where no contribution is negative and the total is not 0
ClockwiseWhenPositive ==
    (Rendered /\ Le(Q(5), inputs.falsePositiveRate)
        /\ (Lt(Q(0), inputs.securityIncidentsPerMonth) \/ Lt(Q(0), inputs.humanSOCAnalysts))) =>
        \A drawn \in DrawnVariants : ClockwiseFromTop(drawn)

-----------------------------------------------------------------------------
(* What a render shows of the results: the operational view computed in     *)
(* the render from the record and the stored results, the result figures,   *)
(* and the props handed to the value analysis.  All of it stands under      *)
(* {results && ...}, so nothing of it is rendered while results is null.    *)

totalHeadcount(in) ==
    Add(Add(Add(in.humanSOCAnalysts, in.humanSOCManager), in.humanSOCEngineer),
        in.humanSOCDirector)

\* Math.floor in place of Math.ceil
optimizedHeadcount_floor(in, res) ==
    LET x == Mul(totalHeadcount(in),
                 Sub(Q(1), Div(res.efficiencyImprovement, Q(100))))
    IN  MathMax(Q(0), Q(x.n \div x.d))

optimizedHeadcount(in, res) ==
    MathMax(Q(0), MathCeil(Mul(totalHeadcount(in),
                               Sub(Q(1), Div(res.efficiencyImprovement, Q(100))))))

freedEmployees(in, res) ==
    MathMax(Q(0), Sub(totalHeadcount(in), optimizedHeadcount(in, res)))

monthlyHoursPerEmployee == Frac(2080, 12)

monthlyTimeSavings(in, res) ==
    Mul(Mul(totalHeadcount(in), monthlyHoursPerEmployee),
        Div(res.efficiencyImprovement, Q(100)))

annualTimeSavings(in, res) == Mul(monthlyTimeSavings(in, res), Q(12))

valueAnalysisProps(in, res) ==
    [inputs  |-> [falsePositiveRate           |-> in.falsePositiveRate,
                  securityIncidentsPerMonth   |-> in.securityIncidentsPerMonth,
                  averageIncidentResponseTime |-> in.averageIncidentResponseTime,
                  humanSOCAnalysts            |-> in.humanSOCAnalysts,
                  employeeCount               |-> in.employeeCount],
     results |-> [annualSavings          |-> res.annualSavings,
                  humanSOCTotalCost      |-> res.humanSOCTotalCost,
                  autonomousSOCTotalCost |-> res.autonomousSOCTotalCost]]

\* the results panels of one render: none while results is null
renderResults(in, stored) ==
    IF stored = <<>> THEN <<>>
    ELSE <<[totalHeadcount     |-> totalHeadcount(in),
            optimizedHeadcount |-> optimizedHeadcount(in, stored[1]),
            freedEmployees     |-> freedEmployees(in, stored[1]),
            annualTimeSavings  |-> annualTimeSavings(in, stored[1]),
            results            |-> stored[1],
            valueAnalysis      |-> valueAnalysisProps(in, stored[1])]>>

-----------------------------------------------------------------------------
(* Render consistency (specification Spec) *)

\* the panels a render would show if the results were those of its own record
ConsistentPanels == renderResults(inputs, <<calculateROI(inputs)>>)

(* C23: in every render that shows the results panels, the results shown    *)
(* are calculateROI of the record of that same render, and so are the       *)
(* operational headcount figures and the props of the value analysis; and   *)
(* nothing is rendered from results before the first computation.  The code *)
(* breaks it: an edit commits the new record in one render and the results  *)
(* effect replaces the results only after that render, so the render in     *)
(* between shows the new record with the results of the previous one.       *)
C23_RenderConsistent ==
    /\ results = <<>> => renderResults(inputs, results) = <<>>
    /\ results # <<>> => renderResults(inputs, results) = ConsistentPanels

\* what does hold: the panels are consistent whenever no results effect is due
RenderConsistentWhenSettled ==
    ~effectPending => renderResults(inputs, results) = ConsistentPanels

\* the render after the edit falsePositiveRate := 0 of the default record: it
\* shows 2 optimized heads, from the efficiency of the previous record, where
\* the record of the render gives 3
StaleRender ==
    /\ effectPending /\ results # <<>>
    /\ Edited(lastEdit, "falsePositiveRate", Q(0))
    /\ results[1] = calculateROI(defaultInputs)
    /\ results[1] # calculateROI(inputs)
    /\ renderResults(inputs, results)[1].totalHeadcount = Q(6)
    /\ renderResults(inputs, results)[1].optimizedHeadcount = Q(2)
    /\ ConsistentPanels[1].optimizedHeadcount = Q(3)

-----------------------------------------------------------------------------
(* The incremental cascade against the from-scratch derivation              *)
(* (specification Spec)                                                     *)

\* the record is what a restart would derive from its own base fields
SelfDerived(record) == record = calculateComputedFields(baseFieldsToSave(record))

BaseEditStep == EditStep /\ lastEdit'.field \in EightBaseFields

-----------------------------------------------------------------------------
(* Restart after edits (specification Spec) *)

\* the state right after a restart that followed an edit of the given field:
\* prevEdit is that edit, and the record before the restart was its outcome
RestartedAfter(field) == lastEdit.field = "reload" /\ prevEdit.field = field

(* C25: a restart yields a record with the employeeCount and the            *)
(* securityIncidentsPerMonth of the record before it, also when that record *)
(* came from an edit of securityIncidentsPerMonth.  The code breaks it: the *)
(* incident count is not persisted, the restart recomputes it as            *)
(* round(employeeCount * 4.8) from the employeeCount the edit derived, so   *)
(* an edit to 12 incidents (employeeCount 3) comes back as 14.              *)
C25_RestartKeepsCounts ==
    /\ RestartedAfter("securityIncidentsPerMonth") =>
          /\ inputs.securityIncidentsPerMonth = prevEdit.value
          /\ inputs.employeeCount = MathRound(Div(prevEdit.value, Frac(24, 5)))
    /\ RestartedAfter("employeeCount") =>
          /\ inputs.employeeCount = prevEdit.value
          /\ inputs.securityIncidentsPerMonth =
                 MathRound(Mul(prevEdit.value, Frac(24, 5)))

\* what does hold: the employeeCount comes back, and the incident count comes
\* back as round(employeeCount * 4.8)
RestartKeepsEmployeeCount ==
    /\ RestartedAfter("securityIncidentsPerMonth") =>
          /\ inputs.employeeCount = MathRound(Div(prevEdit.value, Frac(24, 5)))
          /\ inputs.securityIncidentsPerMonth =
                 MathRound(Mul(inputs.employeeCount, Frac(24, 5)))
    /\ RestartedAfter("employeeCount") =>
          /\ inputs.employeeCount = prevEdit.value
          /\ inputs.securityIncidentsPerMonth =
                 MathRound(Mul(prevEdit.value, Frac(24, 5)))

\* 12 incidents entered, 14 after the restart
RestartChangesIncidents ==
    /\ RestartedAfter("securityIncidentsPerMonth")
    /\ prevEdit.value = Q(12)
    /\ inputs.employeeCount = Q(3)
    /\ inputs.securityIncidentsPerMonth = Q(14)

-----------------------------------------------------------------------------
(* Reset to Defaults (specification Spec) *)

AfterReset == lastEdit.field = "reset"

ReloadStep == ~effectPending /\ effectPending' /\ lastEdit'.field = "reload"

-----------------------------------------------------------------------------
(* The improvements and the operational view over the records they read:   *)
(* the two rates, the log volume and the four headcounts, each set from its *)
(* text field on the default record, then the results effect.               *)

PanelFields ==
    <<"falsePositiveRate", "averageIncidentResponseTime", "monthlyLogVolumeGB",
      "humanSOCAnalysts", "humanSOCManager", "humanSOCEngineer", "humanSOCDirector">>

PanelValues(field) ==
    CASE field = "falsePositiveRate" -> {Q(-10), Q(0), Q(50), Q(75), Q(90)}
      [] field = "averageIncidentResponseTime" -> {Q(-2), Q(0), Q(4), Q(10), Q(30)}
      [] field = "monthlyLogVolumeGB" -> {Q(-5), Q(0), Q(2024), Q(3600), Q(20000)}
      [] field = "humanSOCAnalysts" -> {Q(0), Frac(1, 2), Q(3), Q(7)}
      [] OTHER -> {Q(0), Q(1)}

PanelValueTuples ==
    PanelValues(PanelFields[1]) \X PanelValues(PanelFields[2]) \X
    PanelValues(PanelFields[3]) \X PanelValues(PanelFields[4]) \X
    PanelValues(PanelFields[5]) \X PanelValues(PanelFields[6]) \X
    PanelValues(PanelFields[7])

InitPanel ==
    /\ \E values \in PanelValueTuples :
           inputs = editEach(defaultInputs, PanelFields, values, 1)
    /\ storage = <<baseFieldsToSave(inputs)>>
    /\ results = <<>>
    /\ effectPending = TRUE
    /\ lastEdit = NoEdit
    /\ prevEdit = NoEdit
    /\ nEdits = 0
    /\ chartMounted

NextPanel == ResultsEffect

SpecPanel == InitPanel /\ [][NextPanel]_vars

-----------------------------------------------------------------------------
(* The caps of the two improvements (specification SpecPanel) *)

\* 45 + min(2 * responseTime, 15) + min(0.15 * falsePositiveRate, 8), no cap
UncappedResponseImprovement(record) ==
    LET time == Mul(Q(2), record.averageIncidentResponseTime)
        rate == Mul(Frac(3, 20), record.falsePositiveRate)
    IN  Add(Q(45), Add(IF Lt(time, Q(15)) THEN time ELSE Q(15),
                       IF Lt(rate, Q(8)) THEN rate ELSE Q(8)))

-----------------------------------------------------------------------------
(* The operational view (specification SpecPanel) *)

WholeHeadcounts(record) ==
    \A f \in HeadcountFields : IsInteger(record[f]) /\ record[f].n >= 0

(* C28: for non-negative whole headcounts and non-negative metric inputs,   *)
(* the operational view shows optimizedHeadcount = ceil(totalHeadcount *    *)
(* (1 - efficiencyImprovement / 100)), the least whole number not below     *)
(* that product, and freedEmployees with freed + optimized = total,         *)
(* 0 <= freed <= total and freed at most 80% of total.                      *)
C28_OperationalHeadcount ==
    (results # <<>> /\ NonNegativeInputs(inputs) /\ WholeHeadcounts(inputs)) =>
        LET panel == renderResults(inputs, results)[1]
            total == panel.totalHeadcount
            optimized == panel.optimizedHeadcount
            freed == panel.freedEmployees
            kept == Mul(total, Div(Sub(Q(100), results[1].efficiencyImprovement),
                                   Q(100)))
        IN  /\ total = Q(inputs.humanSOCAnalysts.n + inputs.humanSOCManager.n
                         + inputs.humanSOCEngineer.n + inputs.humanSOCDirector.n)
            /\ IsInteger(optimized)
            /\ Le(kept, optimized) /\ Lt(Sub(optimized, Q(1)), kept)
            /\ Add(freed, optimized) = total
            /\ Le(Q(0), freed) /\ Le(freed, total)
            /\ Le(Mul(freed, Q(5)), Mul(total, Q(4)))

\* six heads at the capped efficiency of 80: ceil(1.2) = 2 stay, 4 are freed
C28_Witness ==
    /\ Computed /\ NonNegativeInputs(inputs) /\ WholeHeadcounts(inputs)
    /\ results[1].efficiencyImprovement = Q(80)
    /\ renderResults(inputs, results)[1].totalHeadcount = Q(6)
    /\ renderResults(inputs, results)[1].optimizedHeadcount = Q(2)
    /\ renderResults(inputs, results)[1].freedEmployees = Q(4)

-----------------------------------------------------------------------------
(* The employee dial (circular-slider.tsx), as main.tsx mounts it: the      *)
(* value is inputs.employeeCount and onChange is the employeeCount edit.    *)

dialMin == 0

dialMax == 5000

dialStep == 50

\* while (r < 0) r += 360; while (r >= 360) r -= 360
normalizeRotation(rotation) == rotation % 360

rotationToValue(rotation, min, max, step) ==
    LET normalizedRotation == normalizeRotation(rotation)
        adjustedNormalized == normalizeRotation(normalizedRotation - 140)
        angleInRange ==
            IF adjustedNormalized >= 135 /\ adjustedNormalized <= 225
            THEN 225 - adjustedNormalized
            ELSE IF adjustedNormalized > 225
            THEN 225 + (360 - adjustedNormalized)
            ELSE 225 + (135 - adjustedNormalized)
        percentage == Frac(angleInRange, 270)
        rawValue == Add(Q(min), Mul(percentage, Q(max - min)))
    IN  Mul(MathRound(Div(rawValue, Q(step))), Q(step))

\* Math.max(min, Math.min(max, newValue))
clampToRange(newValue, min, max) == MathMax(Q(min), MathMin(Q(max), newValue))

\* the angle getDeg hands over, in whole degrees
PointerAngles == 0 .. 359

\* what parseFloat makes of the text typed into the dial: NaN for no number
NaN == [n |-> 0, d |-> 0]

TypedValues ==
    {NaN, Q(-5), Q(0), Frac(101, 2), Q(1725), Q(2000), Q(3000), Q(4100), Q(7000)}

\* parseFloat(ev.target.value) || min
parsedOrMin(parsed, min) == IF parsed = NaN \/ parsed = Q(0) THEN Q(min) ELSE parsed

\* the record the dial is mounted with: an employeeCount set earlier
DialStartValues == {Q(0), Q(500), Q(2000), Q(5000)}

MaxDialEdits == 1

InitDial ==
    /\ \E value \in DialStartValues :
          inputs = deriveInputs(defaultInputs, "employeeCount", value)
    /\ storage = <<baseFieldsToSave(inputs)>>
    /\ results = <<calculateROI(inputs)>>
    /\ effectPending = FALSE
    /\ lastEdit = NoEdit
    /\ prevEdit = NoEdit
    /\ nEdits = 0
    /\ chartMounted

\* handlePointerChange on a drag inside the circle
handlePointerChange ==
    /\ nEdits < MaxDialEdits
    /\ \E deg \in PointerAngles :
          LET newValue == rotationToValue(deg, dialMin, dialMax, dialStep)
          IN  /\ newValue # inputs.employeeCount
              /\ handleInputChange("employeeCount",
                                   clampToRange(newValue, dialMin, dialMax))

\* handleInputChange of the dial's text field
dialHandleInputChange ==
    /\ nEdits < MaxDialEdits
    /\ \E parsed \in TypedValues :
          LET newValue == parsedOrMin(parsed, dialMin)
          IN  handleInputChange("employeeCount",
                                clampToRange(newValue, dialMin, dialMax))

NextDial == handlePointerChange \/ dialHandleInputChange \/ ResultsEffect

SpecDial == InitDial /\ [][NextDial]_vars

-----------------------------------------------------------------------------
(* Dial reachability (specification SpecDial) *)

\* the values a drag can emit
DragValues ==
    {clampToRange(rotationToValue(deg, dialMin, dialMax, dialStep), dialMin, dialMax) :
        deg \in PointerAngles}

StepMultiples == {Q(dialMin + k * dialStep) : k \in 0 .. ((dialMax - dialMin) \div dialStep)}

(* C29: every multiple of the step in [min, max] (0, 50, ..., 5000) is the  *)
(* clamped result of rotationToValue for some pointer angle in 0..359, and  *)
(* every value emitted through onChange, by drag or by typing, lies in      *)
(* [min, max].  The code breaks the first half: rotationToValue maps every  *)
(* angle to an angleInRange in 0..90 or 226..360, never in 91..225, so no   *)
(* drag emits a value from 1700 to 4150.                                    *)
C29_DialReachesEveryStep ==
    /\ StepMultiples \subseteq DragValues
    /\ lastEdit.field = "employeeCount" =>
          /\ Le(Q(dialMin), lastEdit.value) /\ Le(lastEdit.value, Q(dialMax))
          /\ inputs.employeeCount = lastEdit.value

\* what does hold: every emitted value lies in [min, max], and a drag emits a
\* multiple of the step
DialEmitsWithinRange ==
    /\ DragValues \subseteq StepMultiples
    /\ lastEdit.field = "employeeCount" =>
          /\ Le(Q(dialMin), lastEdit.value) /\ Le(lastEdit.value, Q(dialMax))
          /\ inputs.employeeCount = lastEdit.value

\* the values within reach of a drag, and the gap between them
DragReach ==
    DragValues = {v \in StepMultiples : v.n <= 1650 \/ v.n >= 4200}

-----------------------------------------------------------------------------
(* The tooltip of the pie chart (pie-chart.tsx): hoveredSlice, the hide     *)
(* timer and the four mouse handlers.  The tooltip is drawn exactly while   *)
(* hoveredSlice is not null.  A pointer movement from one element to        *)
(* another is a leave followed by an enter; a pending timer may expire at   *)
(* any moment.  tooltipPosition only places the tooltip and is left out.    *)

\* number of slices drawn, with indices 0 .. MaxSlices - 1
MaxSlices == 8

\* number of setTimeout calls explored
MaxTimers == 5

SliceIndices == 0 .. (MaxSlices - 1)

OverSlice(index) == <<"slice", index>>

OverTooltip == <<"tooltip">>

\* if (hideTimeoutRef.current) { clearTimeout(hideTimeoutRef.current);
\*                               hideTimeoutRef.current = null; }
clearHideTimeout ==
    IF hideTimeoutRef # <<>>
    THEN timers' = timers \ {hideTimeoutRef[1]} /\ hideTimeoutRef' = <<>>
    ELSE UNCHANGED <<timers, hideTimeoutRef>>

\* hideTimeoutRef.current = setTimeout(() => setHoveredSlice(null), 100)
scheduleHide ==
    /\ timerCount < MaxTimers
    /\ timerCount' = timerCount + 1
    /\ timers' = timers \cup {timerCount'}
    /\ hideTimeoutRef' = <<timerCount'>>

\* a slip: the slice shown without cancelling the pending hide
sliceMouseEnter_noCancel(index) ==
    /\ pointer = <<"outside">>
    /\ pointer' = OverSlice(index)
    /\ hoveredSlice' = <<index>>
    /\ UNCHANGED <<timers, hideTimeoutRef, timerCount>>
    /\ UNCHANGED <<inputs, results, effectPending, storage, lastEdit, prevEdit, nEdits>>

\* onMouseEnter of a slice
sliceMouseEnter(index) ==
    /\ pointer = <<"outside">>
    /\ pointer' = OverSlice(index)
    /\ clearHideTimeout
    /\ hoveredSlice' = <<index>>
    /\ UNCHANGED timerCount
    /\ UNCHANGED <<inputs, results, effectPending, storage, lastEdit, prevEdit, nEdits>>

\* onMouseLeave of a slice
sliceMouseLeave(index) ==
    /\ pointer = OverSlice(index)
    /\ pointer' = <<"outside">>
    /\ scheduleHide
    /\ UNCHANGED hoveredSlice
    /\ UNCHANGED <<inputs, results, effectPending, storage, lastEdit, prevEdit, nEdits>>

\* onMouseEnter of the tooltip, which exists while a slice is hovered
tooltipMouseEnter ==
    /\ pointer = <<"outside">>
    /\ hoveredSlice # <<>>
    /\ pointer' = OverTooltip
    /\ clearHideTimeout
    /\ UNCHANGED <<hoveredSlice, timerCount>>
    /\ UNCHANGED <<inputs, results, effectPending, storage, lastEdit, prevEdit, nEdits>>

\* onMouseLeave of the tooltip
tooltipMouseLeave ==
    /\ pointer = OverTooltip
    /\ hoveredSlice # <<>>
    /\ pointer' = <<"outside">>
    /\ scheduleHide
    /\ UNCHANGED hoveredSlice
    /\ UNCHANGED <<inputs, results, effectPending, storage, lastEdit, prevEdit, nEdits>>

\* a pending timer expires: () => { setHoveredSlice(null); }
hideTimeout(id) ==
    /\ id \in timers
    /\ timers' = timers \ {id}
    /\ hoveredSlice' = <<>>
    /\ UNCHANGED <<hideTimeoutRef, timerCount, pointer>>
    /\ UNCHANGED <<inputs, results, effectPending, storage, lastEdit, prevEdit, nEdits>>

EnterSlice == \E index \in SliceIndices : sliceMouseEnter(index)

LeaveSlice == \E index \in SliceIndices : sliceMouseLeave(index)

TimerExpires == \E id \in 1 .. MaxTimers : hideTimeout(id)

\* the chart is on the page once the results are: the default record, computed
InitHover ==
    /\ inputs = defaultInputs
    /\ storage = <<>>
    /\ results = <<calculateROI(inputs)>>
    /\ effectPending = FALSE
    /\ lastEdit = NoEdit
    /\ prevEdit = NoEdit
    /\ nEdits = 0
    /\ chartMounted

NextHover ==
    EnterSlice \/ LeaveSlice \/ tooltipMouseEnter \/ tooltipMouseLeave \/ TimerExpires

\* a timer that is pending does expire
SpecHover == InitHover /\ [][NextHover]_vars /\ WF_vars(TimerExpires)

-----------------------------------------------------------------------------
(* The delayed hide (specification SpecHover) *)

PointerOutside == pointer = <<"outside">>

TooltipHidden == hoveredSlice = <<>>

LeaveStep == ~PointerOutside /\ PointerOutside'

EnterStep == PointerOutside /\ ~PointerOutside'

(* C30: leaving a slice or the tooltip schedules one hide and changes       *)
(* nothing shown; entering a slice or the tooltip cancels the pending hide; *)
(* in every interleaving of enter, leave and timer events the tooltip is    *)
(* never hidden while the pointer is over a slice or the tooltip, at most   *)
(* one hide timer is pending, and once the pointer is outside, the tooltip  *)
(* is eventually hidden unless the pointer comes back.                      *)
C30_DelayedHide ==
    /\ [](~PointerOutside => ~TooltipHidden)
    /\ [](Cardinality(timers) <= 1)
    /\ [][/\ LeaveStep =>
                /\ timers' = {timerCount'} /\ timerCount' = timerCount + 1
                /\ hideTimeoutRef' = <<timerCount'>>
                /\ hoveredSlice' = hoveredSlice
          /\ EnterStep => timers' = {} /\ hideTimeoutRef' = <<>> /\ ~TooltipHidden']_vars
    /\ PointerOutside ~> (TooltipHidden \/ ~PointerOutside)

\* the pointer went from slice 1 to its tooltip before the timer expired: the
\* one hide scheduled was cancelled and slice 1 is still shown
C30_Witness ==
    /\ pointer = OverTooltip
    /\ hoveredSlice = <<1>>
    /\ timerCount = 1
    /\ timers = {}
    /\ hideTimeoutRef = <<>>

====
